---- MODULE Spec2Model ----
(***************************************************************************)
(* Model of the experiment back end: the best-model selector               *)
(* (findBestModel, used by compareModels), the multi-algorithm trainer     *)
(* (trainMultipleModels) with its data preparation, its remote training    *)
(* calls and the Experiment store, and the experiment controller           *)
(* (createExperiment, getExperimentById, trainModel, tuneHyperparameters,  *)
(* deleteExperiment).                                                      *)
(*                                                                         *)
(* JavaScript values.  An optional value (a field that may be undefined or *)
(* null) is a sequence of length 0 or 1: None is the missing value,        *)
(* Some(v) the value v.  Metric values are integers (a metric of 0.9 and   *)
(* one of 0.7 become two integers in the same order).                      *)
(***************************************************************************)
EXTENDS Integers, Sequences, FiniteSets, TLC

None == <<>>
Some(v) == <<v>>

\* ------------------------------------------------------------------ bounds
\* Longest model sequence handed to findBestModel.
MaxModels == 3
\* Longest algorithm list of a trainMultipleModels request.
MaxAlgs == 3

\* Metric values a remote result may carry: negative, zero, positive.
MetricVals == {-1, 0, 1}
\* Metric values of a training reply (test_metrics / training_metrics).
TestVals == {-1, 0, 1}
TrainVals == {1}

\* -Infinity: below every metric value.
NegInf == -1000

\* --------------------------------------------------- JavaScript operators
\* Truthiness of an optional number: undefined, null and 0 are falsy.
Truthy(o) == o # None /\ o[1] # 0

\* a || b on optional numbers.
OrElse(a, b) == IF Truthy(a) THEN a ELSE b

\* o?.key on an optional object.
Chain(o, key) == IF o = None THEN None ELSE o[1][key]

\* a || b on optional objects (an object is truthy whenever it is there).
OrElseObj(a, b) == IF a # None THEN a ELSE b

SeqRange(s) == {s[i] : i \in 1..Len(s)}

\* ---------------------------------------------------------------- state
VARIABLES
    heap,        \* findBestModel: the objects of the model array, by reference
    models,      \* findBestModel: the argument `models` (None, or Some(seq of refs))
    fbmType,     \* findBestModel: the argument `problemType`
    fbmPc,       \* "off" | "call" | "returned" | "threw"
    fbmRet,      \* findBestModel: the reference returned (NullRef for null)
    pc,          \* trainMultipleModels, per request: position of the handler
    body,        \* per request: req.body and req.user
    idx,         \* per request: number of algorithms the loop has finished
    results,     \* per request: the `results` object
    bestModel,   \* per request: the `bestModel` variable
    bestScore,   \* per request: the `bestScore` variable
    posted,      \* per request: algorithms of the POST /ml/train calls issued
    postedHyper, \* per request: `hyperparameters` of the calls issued
    replies,     \* per request: what the remote service answered, call by call
    status,      \* per request: HTTP status answered (0: none yet)
    dbOps,       \* per request: the store operations the handler has issued
    experiments, \* the Experiment collection
    prepPc,      \* data preparation: "off" | "call" | "done"
    dsRows,      \* data preparation: the rows of the dataset (`data`)
    dsTarget,    \* data preparation: dataset.targetColumn
    testSize,    \* data preparation: req.body.testSize
    prepOut,     \* data preparation: X_train, y_train, X_test, y_test
    xpc,         \* experiment controller, per call slot: position of the handler
    xcall,       \* per call slot: the handler called, req.user, req.params, req.body
    xdoc,        \* per call slot: the `experiment` document held by the handler
    xresp,       \* per call slot: the response sent (None: none yet)
    xposts,      \* per call slot: remote calls issued by the call
    xnext,       \* the _id the next stored Experiment gets
    datasets,    \* dataset controller: the Dataset collection
    dpc,         \* dataset controller, per call slot: position of the handler
    dcall,       \* per call slot: req.user of the preprocessDataset call
    ddoc,        \* per call slot: the `dataset` document held by the handler
    dresp,       \* per call slot: the status answered (0: none yet)
    dposts,      \* per call slot: remote calls issued by the call
    upPc,        \* uploadDataset: "off" | "parsed" | "done"
    upResults,   \* uploadDataset: `results`, each parsed row by its JSON size
    upValid,     \* uploadDataset: the request passes the schema's validation
    upStored,    \* uploadDataset: the Dataset documents stored (data, numberOfRows)
    upStatus,    \* uploadDataset: HTTP status answered (0: none yet)
    inMemoryUsers, \* user controller: the `inMemoryUsers` array
    useInMemory, \* user controller: the `useInMemory` flag
    timerFired,  \* user controller: the 2 s timer has run ("off": none)
    connected,   \* mongoose.connection.readyState === 1
    dbUsers,     \* the User collection
    apc,         \* user controller, per call slot: position of the handler
    acall,       \* per call slot: the handler called and req.body
    afound,      \* per call slot: the `user` found by loginUser
    aresp,       \* per call slot: HTTP status answered (0: none yet)
    registered,  \* the (email, password) pairs registerUser answered 201 for
    cmpPc,       \* compareModels: position of the handler
    cmpReq,      \* compareModels: req.user and req.body
    cmpModels,   \* compareModels: mlResponse.data.models (None: absent)
    cmpHeap,     \* compareModels: the model objects of the reply
    cmpBest,     \* compareModels: `bestModel` (a reference, 0: null)
    cmpStatus,   \* compareModels: HTTP status answered (0: none yet)
    cmpError,    \* compareModels: what the catch block caught ("": nothing)
    cmpStored    \* compareModels: the Experiment documents created

selVars == <<heap, models, fbmType, fbmPc, fbmRet>>
trainVars == <<pc, body, idx, results, bestModel, bestScore, posted, postedHyper, replies,
               status, dbOps, experiments>>
prepVars == <<prepPc, dsRows, dsTarget, testSize, prepOut>>
expVars == <<xpc, xcall, xdoc, xresp, xposts, xnext>>
dsVars == <<datasets, dpc, dcall, ddoc, dresp, dposts>>
upVars == <<upPc, upResults, upValid, upStored, upStatus>>
authVars == <<inMemoryUsers, useInMemory, timerFired, connected, dbUsers,
              apc, acall, afound, aresp, registered>>
cmpVars == <<cmpPc, cmpReq, cmpModels, cmpHeap, cmpBest, cmpStatus, cmpError,
             cmpStored>>
moreVars == <<dsVars, upVars, authVars, cmpVars>>

vars == <<selVars, trainVars, prepVars, expVars, moreVars>>

\* What a step of trainMultipleModels leaves alone.
notTrainVars == <<selVars, prepVars, expVars, moreVars>>

\* What a step of the experiment controller leaves alone.
notExpVars == <<selVars, prepVars, pc, body, idx, results, bestModel,
                bestScore, posted, postedHyper, replies, status, dbOps,
                moreVars>>

\* ================================================================
\* findBestModel (compareModels' selector)
\* ================================================================
\* findBestModel returns null as reference 0.
NullRef == 0

ProblemTypes == {"classification", "regression", "clustering",
                 "dimensionality_reduction"}

\* The problem types findBestModel has a branch for.
RankedTypes == {"classification", "regression", "clustering"}

OptMetric == {None} \cup {Some(v) : v \in MetricVals}

\* test_metrics of a model of the remote /ml/compare-models reply.
TestMetricsOf(key) ==
    {None} \cup
    {Some([f1_score |-> IF key = "f1_score" THEN Some(v) ELSE None,
           r2_score |-> IF key = "r2_score" THEN Some(v) ELSE None])
        : v \in MetricVals}

\* The model records of a reply for problem type pt: the fields the ranking
\* of pt reads take every value, the others are missing.
ModelRecords(pt) ==
    IF pt = "regression"
    THEN {[f1_score |-> None, r2_score |-> r, silhouette_score |-> None,
           test_metrics |-> t, primaryMetric |-> None]
            : r \in OptMetric, t \in TestMetricsOf("r2_score")}
    ELSE IF pt = "clustering"
    THEN {[f1_score |-> None, r2_score |-> None, silhouette_score |-> s,
           test_metrics |-> None, primaryMetric |-> None]
            : s \in OptMetric}
    ELSE {[f1_score |-> f, r2_score |-> None, silhouette_score |-> None,
           test_metrics |-> t, primaryMetric |-> None]
            : f \in OptMetric, t \in TestMetricsOf("f1_score")}

\* The metric the scan of findBestModel compares (bestF1/currentF1,
\* bestR2/currentR2, bestScore/currentScore).
ScanMetric(m, pt) ==
    CASE pt = "classification" ->
           OrElse(OrElse(m.f1_score, Chain(m.test_metrics, "f1_score")), Some(0))[1]
      [] pt = "regression" ->
           OrElse(OrElse(m.r2_score, Chain(m.test_metrics, "r2_score")), Some(NegInf))[1]
      [] pt = "clustering" ->
           OrElse(m.silhouette_score, Some(0))[1]

\* The value findBestModel stores in best.primaryMetric.
PrimaryMetric(m, pt) ==
    CASE pt = "classification" ->
           OrElse(OrElse(m.f1_score, Chain(m.test_metrics, "f1_score")), Some(0))[1]
      [] pt = "regression" ->
           OrElse(OrElse(m.r2_score, Chain(m.test_metrics, "r2_score")), Some(0))[1]
      [] pt = "clustering" ->
           OrElse(m.silhouette_score, Some(0))[1]

\* Variant of the scan: a later element also replaces the running best when
\* its metric is equal.
RECURSIVE ScanLoopLastWins(_, _, _, _, _)
ScanLoopLastWins(h, ms, pt, i, best) ==
    IF i > Len(ms) THEN best
    ELSE ScanLoopLastWins(h, ms, pt, i + 1,
                          IF ScanMetric(h[ms[i]], pt) >= ScanMetric(h[best], pt)
                          THEN ms[i] ELSE best)

\* for (let model of models) { if (current > best) best = model; }
\* i is the next position of the array, best the reference held by `best`.
RECURSIVE ScanLoop(_, _, _, _, _)
ScanLoop(h, ms, pt, i, best) ==
    IF i > Len(ms) THEN best
    ELSE ScanLoop(h, ms, pt, i + 1,
                  IF ScanMetric(h[ms[i]], pt) > ScanMetric(h[best], pt)
                  THEN ms[i] ELSE best)

\* Variant of findBestModel: the winner is returned as a copy
\* ({...best, primaryMetric}), a new object of the heap.
findBestModelCopy(h, marg, pt) ==
    IF marg = None \/ Len(marg[1]) = 0
    THEN [ret |-> NullRef, heap |-> h, threw |-> FALSE]
    ELSE LET ms == marg[1] IN
         IF pt \in RankedTypes
         THEN LET best == ScanLoop(h, ms, pt, 1, ms[1]) IN
              [ret |-> Len(h) + 1,
               heap |-> Append(h, [h[best] EXCEPT !.primaryMetric =
                                      Some(PrimaryMetric(h[best], pt))]),
               threw |-> FALSE]
         ELSE [ret |-> ms[1], heap |-> h, threw |-> FALSE]

\* Variant of findBestModel without the guard of its first line: models[0]
\* of an empty array is undefined (a missing array has no element 0 to read),
\* and reading a metric of undefined throws.
findBestModelNoGuard(h, marg, pt) ==
    IF marg = None
    THEN [ret |-> NullRef, heap |-> h, threw |-> TRUE]
    ELSE LET ms == marg[1] IN
         IF Len(ms) = 0
         THEN [ret |-> NullRef, heap |-> h, threw |-> pt \in RankedTypes]
         ELSE IF pt \in RankedTypes
         THEN LET best == ScanLoop(h, ms, pt, 1, ms[1]) IN
              [ret |-> best,
               heap |-> [h EXCEPT ![best].primaryMetric =
                                      Some(PrimaryMetric(h[best], pt))],
               threw |-> FALSE]
         ELSE [ret |-> ms[1], heap |-> h, threw |-> FALSE]

\* Variant of findBestModel: a problem type without a branch of its own is
\* ranked by the classification branch.
findBestModelFallback(h, marg, pt) ==
    IF marg = None \/ Len(marg[1]) = 0
    THEN [ret |-> NullRef, heap |-> h, threw |-> FALSE]
    ELSE LET ms == marg[1]
             rule == IF pt \in RankedTypes THEN pt ELSE "classification"
             best == ScanLoop(h, ms, rule, 1, ms[1]) IN
         [ret |-> best,
          heap |-> [h EXCEPT ![best].primaryMetric =
                                 Some(PrimaryMetric(h[best], rule))],
          threw |-> FALSE]

\* findBestModel(models, problemType) on heap h: the reference returned, the
\* heap after the call (best.primaryMetric is written in place) and whether
\* the call threw.
findBestModel(h, marg, pt) ==
    IF marg = None \/ Len(marg[1]) = 0
    THEN [ret |-> NullRef, heap |-> h, threw |-> FALSE]
    ELSE LET ms == marg[1] IN
         IF pt \in RankedTypes
         THEN LET best == ScanLoop(h, ms, pt, 1, ms[1]) IN
              [ret |-> best,
               heap |-> [h EXCEPT ![best].primaryMetric =
                                      Some(PrimaryMetric(h[best], pt))],
               threw |-> FALSE]
         ELSE [ret |-> ms[1], heap |-> h, threw |-> FALSE]

\* A reply of n models: n objects, the array holding them in order.
ModelHeaps(pt) ==
    UNION {[1..n -> ModelRecords(pt)] : n \in 0..MaxModels}

InitSel ==
    /\ fbmType \in ProblemTypes
    /\ heap \in ModelHeaps(fbmType)
    /\ models \in {None, Some([i \in 1..Len(heap) |-> i])}
    /\ (models = None => Len(heap) = 0)
    /\ fbmPc = "call"
    /\ fbmRet = NullRef

\* One call of findBestModel(models, problemType).
CallFindBestModel ==
    /\ fbmPc = "call"
    /\ LET r == findBestModel(heap, models, fbmType) IN
         /\ fbmPc' = IF r.threw THEN "threw" ELSE "returned"
         /\ fbmRet' = r.ret
         /\ heap' = r.heap
    /\ UNCHANGED <<models, fbmType>>

\* ================================================================
\* trainMultipleModels (POST /api/experiments/train-multiple)
\* ================================================================
Reqs == {"r1", "r2"}

Algs == {"lda", "xgboost", "constructor"}

\* The Dataset collection (dataset id -> owning user); the caller is "u1".
DatasetOwner == [d \in {"d1", "d2"} |-> IF d = "d1" THEN "u1" ELSE "u2"]
DatasetIds == DOMAIN DatasetOwner \cup {"d9"}

\* Messages of a failed axios.post.
ErrMsgs == {"Network Error", "Request failed with status code 500"}

\* Sequences over S of length lo..hi.
SeqsOf(S, lo, hi) == UNION {[1..n -> S] : n \in lo..hi}

\* test_metrics / training_metrics of a /ml/train reply.
MetricMap(key, v) ==
    Some([accuracy |-> IF key = "accuracy" THEN Some(v) ELSE None,
          r2_score |-> IF key = "r2_score" THEN Some(v) ELSE None])

\* The ModelResult bodies the remote trainer may answer for problem type pt.
TrainBodies(pt) ==
    IF pt \in {"classification", "regression"}
    THEN LET key == IF pt = "classification" THEN "accuracy" ELSE "r2_score" IN
         {[error |-> None, test_metrics |-> t, training_metrics |-> tr,
           metrics |-> None]
            : t \in {None} \cup {MetricMap(key, v) : v \in TestVals},
              tr \in {None} \cup {MetricMap(key, v) : v \in TrainVals}}
    ELSE IF pt = "clustering"
    THEN {[error |-> None, test_metrics |-> None, training_metrics |-> None,
           metrics |-> m]
            : m \in {None} \cup
                    {Some([silhouette_score |-> o]) : o \in OptMetric}}
    ELSE {[error |-> None, test_metrics |-> t, training_metrics |-> None,
           metrics |-> None]
            : t \in {None, MetricMap("accuracy", 1)}}

\* results[algorithm] after a failed call.
ErrorEntry(msg) ==
    [error |-> Some(msg), test_metrics |-> None, training_metrics |-> None,
     metrics |-> None]

\* `score`, determined from the problem type.
Score(modelResult, pt) ==
    CASE pt = "classification" ->
           OrElse(OrElse(Chain(modelResult.test_metrics, "accuracy"),
                         Chain(modelResult.training_metrics, "accuracy")),
                  Some(0))[1]
      [] pt = "regression" ->
           OrElse(OrElse(Chain(modelResult.test_metrics, "r2_score"),
                         Chain(modelResult.training_metrics, "r2_score")),
                  Some(0))[1]
      [] pt = "clustering" ->
           OrElse(Chain(modelResult.metrics, "silhouette_score"), Some(0))[1]
      [] OTHER -> 0

\* bestScore before the loop.
InitialBestScore == NegInf

\* Variant: a score of 0 is never taken as a new best.
BeatsTruthy(score, best) == score # 0 /\ score > best

\* if (score > bestScore)
Beats(score, best) == score > best

\* The bestModel object built for a new best.
BestModelOf(algorithm, score, modelResult) ==
    [algorithm |-> algorithm, score |-> score,
     metrics |-> OrElseObj(modelResult.test_metrics,
                           modelResult.training_metrics)]

\* obj[key] = value on a JavaScript object used as a map.
Put(obj, key, value) ==
    [k \in DOMAIN obj \cup {key} |-> IF k = key THEN value ELSE obj[k]]

EmptyObj == [k \in {} |-> None]

\* The object literal `defaults` of getDefaultHyperparameters: its own
\* properties (numbers are written as their decimal text).
defaults ==
       ("linear_regression" :> EmptyObj) @@
       ("ridge_regression" :> [alpha |-> "1"]) @@
       ("lasso_regression" :> [alpha |-> "1"]) @@
       ("elastic_net" :> [alpha |-> "1", l1_ratio |-> "0.5"]) @@
       ("decision_tree_regressor" :> [max_depth |-> "10", min_samples_split |-> "5"]) @@
       ("random_forest_regressor" :> [n_estimators |-> "100", max_depth |-> "10", min_samples_split |-> "5"]) @@
       ("extra_trees_regressor" :> [n_estimators |-> "100", max_depth |-> "10"]) @@
       ("gradient_boosting_regressor" :> [n_estimators |-> "100", learning_rate |-> "0.1", max_depth |-> "5"]) @@
       ("adaboost_regressor" :> [n_estimators |-> "100", learning_rate |-> "0.1"]) @@
       ("svm_regressor" :> [kernel |-> "rbf", C |-> "1", gamma |-> "scale"]) @@
       ("knn_regressor" :> [n_neighbors |-> "5", weights |-> "uniform"]) @@
       ("logistic_regression" :> [C |-> "1", max_iter |-> "1000"]) @@
       ("lda" :> [solver |-> "svd"]) @@
       ("qda" :> EmptyObj) @@
       ("decision_tree_classifier" :> [max_depth |-> "10", min_samples_split |-> "5"]) @@
       ("random_forest_classifier" :> [n_estimators |-> "100", max_depth |-> "10", min_samples_split |-> "5"]) @@
       ("extra_trees_classifier" :> [n_estimators |-> "100", max_depth |-> "10"]) @@
       ("gradient_boosting_classifier" :> [n_estimators |-> "100", learning_rate |-> "0.1", max_depth |-> "5"]) @@
       ("adaboost_classifier" :> [n_estimators |-> "100", learning_rate |-> "0.1"]) @@
       ("svm_classifier" :> [kernel |-> "rbf", C |-> "1", gamma |-> "scale"]) @@
       ("knn_classifier" :> [n_neighbors |-> "5", weights |-> "uniform"]) @@
       ("gaussian_nb" :> EmptyObj) @@
       ("multinomial_nb" :> [alpha |-> "1"]) @@
       ("kmeans" :> [n_clusters |-> "3", n_init |-> "10"]) @@
       ("hierarchical" :> [n_clusters |-> "3", linkage |-> "ward"]) @@
       ("dbscan" :> [eps |-> "0.5", min_samples |-> "5"]) @@
       ("gaussian_mixture" :> [n_components |-> "3"]) @@
       ("pca" :> [n_components |-> "2"]) @@
       ("tsne" :> [n_components |-> "2", perplexity |-> "30"]) @@
       ("isomap" :> [n_components |-> "2", n_neighbors |-> "5"])

\* The properties every object literal inherits from Object.prototype.
ObjectPrototypeKeys ==
    {"constructor", "__proto__", "hasOwnProperty", "isPrototypeOf",
     "propertyIsEnumerable", "toLocaleString", "toString", "valueOf"}

\* A value of defaults[algorithm] || {}: a plain object with its entries, or
\* the member of Object.prototype of that name (a function, or for __proto__
\* the prototype object itself).
PlainObject(entries) == [kind |-> "object", member |-> "", entries |-> entries]
PrototypeMember(name) == [kind |-> "inherited", member |-> name, entries |-> EmptyObj]

\* return defaults[algorithm] || {}: the property lookup finds own
\* properties first and inherited ones next; every value found is truthy.
getDefaultHyperparameters(algorithm) ==
    IF algorithm \in DOMAIN defaults THEN PlainObject(defaults[algorithm])
    ELSE IF algorithm \in ObjectPrototypeKeys THEN PrototypeMember(algorithm)
    ELSE PlainObject(EmptyObj)

\* The fields of experimentSchema marked required, and the problemType enum.
ExperimentProblemTypes ==
    {"classification", "regression", "clustering", "neural_network"}

\* Mongoose validation of a document against experimentSchema.
ValidExperiment(doc) ==
    /\ doc.name # None
    /\ doc.user # None
    /\ doc.dataset # None
    /\ doc.problemType # None
    /\ doc.problemType[1] \in ExperimentProblemTypes
    /\ doc.algorithm # None

\* The document trainMultipleModels hands to Experiment.create, by the paths
\* of experimentSchema (paths the schema does not declare are dropped).
MultiExperimentDoc(r) ==
    [name |-> Some("Multi-Model Training"),
     user |-> Some(body[r].user),
     dataset |-> body[r].datasetId,
     problemType |-> Some(body[r].problemType),
     algorithm |-> None,
     status |-> "completed",
     owner |-> r]

\* The request bodies: datasetId and algorithms may be missing.
Bodies ==
    {[datasetId |-> d, algorithms |-> a, problemType |-> pt, user |-> "u1"]
        : d \in {None} \cup {Some(x) : x \in DatasetIds},
          a \in {None} \cup {Some(l) : l \in SeqsOf(Algs, 0, MaxAlgs)},
          pt \in ProblemTypes}

\* !datasetId || !algorithms || algorithms.length === 0 is false.
ValidBody(r) ==
    /\ body[r].datasetId # None
    /\ body[r].algorithms # None
    /\ Len(body[r].algorithms[1]) > 0

\* Variant of Start: the dataset lookup is issued before the validation.
StartLooksUpFirst(r) ==
    /\ pc[r] = "start"
    /\ dbOps' = [dbOps EXCEPT ![r] = Append(@, "Dataset.findOne")]
    /\ IF ValidBody(r)
       THEN /\ pc' = [pc EXCEPT ![r] = "findOne"]
            /\ UNCHANGED status
       ELSE /\ status' = [status EXCEPT ![r] = 400]
            /\ pc' = [pc EXCEPT ![r] = "done"]
    /\ UNCHANGED <<body, idx, results, bestModel, bestScore, posted, postedHyper, replies,
                   experiments>>
    /\ UNCHANGED notTrainVars

\* const { datasetId, algorithms } = req.body; the validation; then the
\* handler awaits Dataset.findOne.
Start(r) ==
    /\ pc[r] = "start"
    /\ IF \/ body[r].datasetId = None
          \/ body[r].algorithms = None
          \/ Len(body[r].algorithms[1]) = 0
       THEN /\ status' = [status EXCEPT ![r] = 400]
            /\ pc' = [pc EXCEPT ![r] = "done"]
            /\ UNCHANGED dbOps
       ELSE /\ pc' = [pc EXCEPT ![r] = "findOne"]
            /\ dbOps' = [dbOps EXCEPT ![r] = Append(@, "Dataset.findOne")]
            /\ UNCHANGED status
    /\ UNCHANGED <<body, idx, results, bestModel, bestScore, posted, postedHyper, replies,
                   experiments>>
    /\ UNCHANGED notTrainVars

\* Dataset.findOne({_id: datasetId, user: req.user._id}) finds a document.
DatasetFound(r) ==
    /\ body[r].datasetId # None
    /\ body[r].datasetId[1] \in DOMAIN DatasetOwner
    /\ DatasetOwner[body[r].datasetId[1]] = body[r].user

\* Variant of FindOneReturns: the lookup is by _id alone, whoever owns the
\* dataset.
FindOneReturnsAnyOwner(r) ==
    /\ pc[r] = "findOne"
    /\ IF body[r].datasetId[1] \in DOMAIN DatasetOwner
       THEN /\ results' = [results EXCEPT ![r] = EmptyObj]
            /\ bestModel' = [bestModel EXCEPT ![r] = None]
            /\ bestScore' = [bestScore EXCEPT ![r] = InitialBestScore]
            /\ idx' = [idx EXCEPT ![r] = 0]
            /\ posted' = [posted EXCEPT ![r] = <<body[r].algorithms[1][1]>>]
            /\ postedHyper' = [postedHyper EXCEPT ![r] =
                  <<getDefaultHyperparameters(body[r].algorithms[1][1])>>]
            /\ pc' = [pc EXCEPT ![r] = "train"]
            /\ UNCHANGED status
       ELSE /\ status' = [status EXCEPT ![r] = 404]
            /\ pc' = [pc EXCEPT ![r] = "done"]
            /\ UNCHANGED <<results, bestModel, bestScore, idx, posted, postedHyper>>
    /\ UNCHANGED <<body, replies, dbOps, experiments>>
    /\ UNCHANGED notTrainVars

\* Variant of FindOneReturns: the POST /ml/train calls of all algorithms are
\* issued at once.
FindOneReturnsFanOut(r) ==
    /\ pc[r] = "findOne"
    /\ IF DatasetFound(r)
       THEN /\ results' = [results EXCEPT ![r] = EmptyObj]
            /\ bestModel' = [bestModel EXCEPT ![r] = None]
            /\ bestScore' = [bestScore EXCEPT ![r] = InitialBestScore]
            /\ idx' = [idx EXCEPT ![r] = 0]
            /\ posted' = [posted EXCEPT ![r] = body[r].algorithms[1]]
            /\ postedHyper' = [postedHyper EXCEPT ![r] =
                  [i \in 1..Len(body[r].algorithms[1]) |->
                      getDefaultHyperparameters(body[r].algorithms[1][i])]]
            /\ pc' = [pc EXCEPT ![r] = "train"]
            /\ UNCHANGED status
       ELSE /\ status' = [status EXCEPT ![r] = 404]
            /\ pc' = [pc EXCEPT ![r] = "done"]
            /\ UNCHANGED <<results, bestModel, bestScore, idx, posted, postedHyper>>
    /\ UNCHANGED <<body, replies, dbOps, experiments>>
    /\ UNCHANGED notTrainVars

\* Dataset.findOne({_id, user}) answers: 404 when there is no such dataset
\* of the caller; otherwise the data is prepared, results/bestModel/bestScore
\* are initialised and the first POST /ml/train is issued.
FindOneReturns(r) ==
    /\ pc[r] = "findOne"
    /\ IF DatasetFound(r)
       THEN /\ results' = [results EXCEPT ![r] = EmptyObj]
            /\ bestModel' = [bestModel EXCEPT ![r] = None]
            /\ bestScore' = [bestScore EXCEPT ![r] = InitialBestScore]
            /\ idx' = [idx EXCEPT ![r] = 0]
            /\ posted' = [posted EXCEPT ![r] = <<body[r].algorithms[1][1]>>]
            /\ postedHyper' = [postedHyper EXCEPT ![r] =
                  <<getDefaultHyperparameters(body[r].algorithms[1][1])>>]
            /\ pc' = [pc EXCEPT ![r] = "train"]
            /\ UNCHANGED status
       ELSE /\ status' = [status EXCEPT ![r] = 404]
            /\ pc' = [pc EXCEPT ![r] = "done"]
            /\ UNCHANGED <<results, bestModel, bestScore, idx, posted, postedHyper>>
    /\ UNCHANGED <<body, replies, dbOps, experiments>>
    /\ UNCHANGED notTrainVars

\* Dataset.findOne found the dataset and its file is read
\* (fs.createReadStream(dataset.filePath)): a read error rejects the awaited
\* promise and the outer catch answers 500.
ReadFileFails(r) ==
    /\ pc[r] = "findOne"
    /\ DatasetFound(r)
    /\ status' = [status EXCEPT ![r] = 500]
    /\ pc' = [pc EXCEPT ![r] = "done"]
    /\ UNCHANGED <<body, idx, results, bestModel, bestScore, posted, postedHyper, replies,
                   dbOps, experiments>>
    /\ UNCHANGED notTrainVars

\* After the loop body for algorithm number idx+1: the next POST is issued,
\* or the loop is over and Experiment.create is awaited.
Advance(r) ==
    LET algorithms == body[r].algorithms[1]
        n == idx[r] + 1 IN
    /\ idx' = [idx EXCEPT ![r] = n]
    /\ IF n < Len(algorithms)
       THEN /\ posted' = [posted EXCEPT ![r] = Append(@, algorithms[n + 1])]
            /\ postedHyper' = [postedHyper EXCEPT ![r] =
                  Append(@, getDefaultHyperparameters(algorithms[n + 1]))]
            /\ pc' = [pc EXCEPT ![r] = "train"]
            /\ UNCHANGED dbOps
       ELSE /\ posted' = posted
            /\ postedHyper' = postedHyper
            /\ pc' = [pc EXCEPT ![r] = "create"]
            /\ dbOps' = [dbOps EXCEPT ![r] = Append(@, "Experiment.create")]

\* Variant of TrainSucceeds: bestScore is one variable shared by all
\* requests (the score must beat the best score of every request).
TrainSucceedsSharedBest(r) ==
    /\ pc[r] = "train"
    /\ \E modelResult \in TrainBodies(body[r].problemType) :
         LET algorithm == body[r].algorithms[1][idx[r] + 1]
             score == Score(modelResult, body[r].problemType) IN
         /\ results' = [results EXCEPT ![r] = Put(@, algorithm, modelResult)]
         /\ IF \A q \in Reqs : Beats(score, bestScore[q])
            THEN /\ bestScore' = [bestScore EXCEPT ![r] = score]
                 /\ bestModel' = [bestModel EXCEPT ![r] =
                                    Some(BestModelOf(algorithm, score, modelResult))]
            ELSE UNCHANGED <<bestScore, bestModel>>
         /\ replies' = [replies EXCEPT ![r] =
                          Append(@, [ok |-> TRUE, data |-> Some(modelResult),
                                     message |-> None])]
    /\ Advance(r)
    /\ UNCHANGED <<body, status, experiments>>
    /\ UNCHANGED notTrainVars

\* The awaited axios.post resolves with modelResult.
TrainSucceeds(r) ==
    /\ pc[r] = "train"
    /\ \E modelResult \in TrainBodies(body[r].problemType) :
         LET algorithm == body[r].algorithms[1][idx[r] + 1]
             score == Score(modelResult, body[r].problemType) IN
         /\ results' = [results EXCEPT ![r] = Put(@, algorithm, modelResult)]
         /\ IF Beats(score, bestScore[r])
            THEN /\ bestScore' = [bestScore EXCEPT ![r] = score]
                 /\ bestModel' = [bestModel EXCEPT ![r] =
                                    Some(BestModelOf(algorithm, score, modelResult))]
            ELSE UNCHANGED <<bestScore, bestModel>>
         /\ replies' = [replies EXCEPT ![r] =
                          Append(@, [ok |-> TRUE, data |-> Some(modelResult),
                                     message |-> None])]
    /\ Advance(r)
    /\ UNCHANGED <<body, status, experiments>>
    /\ UNCHANGED notTrainVars

\* Variant of TrainFails: the failed algorithm still enters the best-model
\* tracking, with score 0.
TrainFailsScored(r) ==
    /\ pc[r] = "train"
    /\ \E msg \in ErrMsgs :
         LET algorithm == body[r].algorithms[1][idx[r] + 1] IN
         /\ results' = [results EXCEPT ![r] = Put(@, algorithm, ErrorEntry(msg))]
         /\ IF Beats(0, bestScore[r])
            THEN /\ bestScore' = [bestScore EXCEPT ![r] = 0]
                 /\ bestModel' = [bestModel EXCEPT ![r] =
                                    Some(BestModelOf(algorithm, 0, ErrorEntry(msg)))]
            ELSE UNCHANGED <<bestScore, bestModel>>
         /\ replies' = [replies EXCEPT ![r] =
                          Append(@, [ok |-> FALSE, data |-> None,
                                     message |-> Some(msg)])]
    /\ Advance(r)
    /\ UNCHANGED <<body, status, experiments>>
    /\ UNCHANGED notTrainVars

\* Variant of TrainFails: the first failure ends the loop.
TrainFailsAborts(r) ==
    /\ pc[r] = "train"
    /\ \E msg \in ErrMsgs :
         LET algorithm == body[r].algorithms[1][idx[r] + 1] IN
         /\ results' = [results EXCEPT ![r] = Put(@, algorithm, ErrorEntry(msg))]
         /\ replies' = [replies EXCEPT ![r] =
                          Append(@, [ok |-> FALSE, data |-> None,
                                     message |-> Some(msg)])]
    /\ idx' = [idx EXCEPT ![r] = @ + 1]
    /\ pc' = [pc EXCEPT ![r] = "create"]
    /\ dbOps' = [dbOps EXCEPT ![r] = Append(@, "Experiment.create")]
    /\ UNCHANGED <<body, bestModel, bestScore, posted, postedHyper, status, experiments>>
    /\ UNCHANGED notTrainVars

\* The awaited axios.post rejects: the catch block records the error.
TrainFails(r) ==
    /\ pc[r] = "train"
    /\ \E msg \in ErrMsgs :
         LET algorithm == body[r].algorithms[1][idx[r] + 1] IN
         /\ results' = [results EXCEPT ![r] = Put(@, algorithm, ErrorEntry(msg))]
         /\ replies' = [replies EXCEPT ![r] =
                          Append(@, [ok |-> FALSE, data |-> None,
                                     message |-> Some(msg)])]
    /\ Advance(r)
    /\ UNCHANGED <<body, bestModel, bestScore, status, experiments>>
    /\ UNCHANGED notTrainVars

\* Experiment.create answers: the document is validated against the schema;
\* a valid one is stored and the request answered 200, an invalid one makes
\* create reject and the outer catch answers 500.
CreateReturns(r) ==
    /\ pc[r] = "create"
    /\ LET doc == MultiExperimentDoc(r) IN
       IF ValidExperiment(doc)
       THEN /\ experiments' = experiments \cup {doc}
            /\ status' = [status EXCEPT ![r] = 200]
       ELSE /\ experiments' = experiments
            /\ status' = [status EXCEPT ![r] = 500]
    /\ pc' = [pc EXCEPT ![r] = "done"]
    /\ UNCHANGED <<body, idx, results, bestModel, bestScore, posted, postedHyper, replies,
                   dbOps>>
    /\ UNCHANGED notTrainVars

\* The body of a request that is never made.
IdleBody ==
    [datasetId |-> None, algorithms |-> None, problemType |-> "classification",
     user |-> "u1"]

\* The request variables before the handlers of the requests in `active` run.
InitTrainVars(active) ==
    /\ \E f \in [active -> Bodies] :
         body = [r \in Reqs |-> IF r \in active THEN f[r] ELSE IdleBody]
    /\ pc = [r \in Reqs |-> IF r \in active THEN "start" ELSE "off"]
    /\ idx = [r \in Reqs |-> 0]
    /\ results = [r \in Reqs |-> EmptyObj]
    /\ bestModel = [r \in Reqs |-> None]
    /\ bestScore = [r \in Reqs |-> InitialBestScore]
    /\ posted = [r \in Reqs |-> <<>>]
    /\ postedHyper = [r \in Reqs |-> <<>>]
    /\ replies = [r \in Reqs |-> <<>>]
    /\ status = [r \in Reqs |-> 0]
    /\ dbOps = [r \in Reqs |-> <<>>]
    /\ experiments = {}

\* The bodies of two requests that run together: the caller's own dataset,
\* one or two algorithms, classification or regression.
TwoBodies ==
    {[datasetId |-> Some("d1"), algorithms |-> Some(l), problemType |-> pt,
      user |-> "u1"]
        : l \in {<<"lda">>, <<"lda", "xgboost">>, <<"xgboost", "lda">>},
          pt \in {"classification", "regression"}}

\* Two requests have arrived.
InitTwo ==
    /\ body \in [Reqs -> TwoBodies]
    /\ pc = [r \in Reqs |-> "start"]
    /\ idx = [r \in Reqs |-> 0]
    /\ results = [r \in Reqs |-> EmptyObj]
    /\ bestModel = [r \in Reqs |-> None]
    /\ bestScore = [r \in Reqs |-> InitialBestScore]
    /\ posted = [r \in Reqs |-> <<>>]
    /\ postedHyper = [r \in Reqs |-> <<>>]
    /\ replies = [r \in Reqs |-> <<>>]
    /\ status = [r \in Reqs |-> 0]
    /\ dbOps = [r \in Reqs |-> <<>>]
    /\ experiments = {}

\* The selector variables while no findBestModel call is modelled.
SelOff ==
    /\ heap = <<>>
    /\ models = None
    /\ fbmType = "classification"
    /\ fbmPc = "off"
    /\ fbmRet = NullRef

\* ================================================================
\* trainMultipleModels: data preparation (cell coercion, X / y, split)
\* ================================================================
\* Most rows of a dataset, and most characters of a cell.
MaxRows == 5
MaxCellLen == 2

\* A string is a sequence of characters; the characters of the model.
Chars == {"0", "1", "2", " ", "a", "x"}
DigitChars == {"0", "1", "2"}
HexChars == DigitChars \cup {"a"}

CharVal(c) ==
    CASE c = "0" -> 0 [] c = "1" -> 1 [] c = "2" -> 2 [] c = "a" -> 10

\* JavaScript values a cell may hold, and NaN.
Str(s) == [t |-> "string", s |-> s, n |-> 0]
Num(n) == [t |-> "number", s |-> <<>>, n |-> n]
Null == [t |-> "null", s |-> <<>>, n |-> 0]
Undefined == [t |-> "undefined", s |-> <<>>, n |-> 0]
NaN == [t |-> "NaN", s |-> <<>>, n |-> 0]

RECURSIVE DecValue(_)
DecValue(s) ==
    IF s = <<>> THEN 0
    ELSE DecValue(SubSeq(s, 1, Len(s) - 1)) * 10 + CharVal(s[Len(s)])

RECURSIVE HexValue(_)
HexValue(s) ==
    IF s = <<>> THEN 0
    ELSE HexValue(SubSeq(s, 1, Len(s) - 1)) * 16 + CharVal(s[Len(s)])

RECURSIVE TrimLeft(_)
TrimLeft(s) == IF s # <<>> /\ s[1] = " " THEN TrimLeft(Tail(s)) ELSE s

RECURSIVE TrimRight(_)
TrimRight(s) ==
    IF s # <<>> /\ s[Len(s)] = " "
    THEN TrimRight(SubSeq(s, 1, Len(s) - 1)) ELSE s

\* The longest prefix of s made of decimal digits.
RECURSIVE DigitPrefix(_)
DigitPrefix(s) ==
    IF s # <<>> /\ s[1] \in DigitChars
    THEN <<s[1]>> \o DigitPrefix(Tail(s)) ELSE <<>>

\* Number(string): surrounding white space is dropped; the empty string is
\* 0; a decimal or a 0x literal is its value; anything else is NaN (None).
StringToNumber(s) ==
    LET t == TrimRight(TrimLeft(s)) IN
    IF t = <<>> THEN Some(0)
    ELSE IF \A i \in 1..Len(t) : t[i] \in DigitChars THEN Some(DecValue(t))
    ELSE IF /\ Len(t) >= 3
            /\ t[1] = "0"
            /\ t[2] = "x"
            /\ \A i \in 3..Len(t) : t[i] \in HexChars
         THEN Some(HexValue(SubSeq(t, 3, Len(t))))
    ELSE None

\* Number(val), None for NaN.
ToNumber(val) ==
    CASE val.t = "string" -> StringToNumber(val.s)
      [] val.t = "number" -> Some(val.n)
      [] val.t = "null" -> Some(0)
      [] OTHER -> None

\* The global isNaN(val).
isNaN(val) == ToNumber(val) = None

\* parseFloat(val), None for NaN: leading white space is skipped and the
\* longest decimal prefix is the value; null and undefined are parsed as the
\* strings "null" and "undefined".
parseFloat(val) ==
    CASE val.t = "string" ->
           LET p == DigitPrefix(TrimLeft(val.s)) IN
           IF p = <<>> THEN None ELSE Some(DecValue(p))
      [] val.t = "number" -> Some(val.n)
      [] OTHER -> None

\* isNaN(val) ? val : parseFloat(val)
CoerceCell(val) ==
    IF isNaN(val) THEN val
    ELSE IF parseFloat(val) = None THEN NaN ELSE Num(parseFloat(val)[1])

\* dataset.columns.map(c => c.name): a feature column and a label column.
Columns == <<"x", "y">>

\* const X = data.map(row => columns.map(col => ...))
XOf(data) ==
    [i \in 1..Len(data) |->
        [j \in 1..Len(Columns) |-> CoerceCell(data[i][Columns[j]])]]

\* dataset.targetColumn || columns[columns.length - 1]
TargetCol(target) ==
    IF target # None /\ target[1] # "" THEN target[1] ELSE Columns[Len(Columns)]

\* const y = data.map(row => ...)
YOf(data, target) ==
    [i \in 1..Len(data) |-> CoerceCell(data[i][TargetCol(target)])]

\* The test fractions of the model, as numerator and denominator:
\* 0.2, 0.5 and 0.8.
TestSizes == {<<1, 5>>, <<1, 2>>, <<4, 5>>}

\* The fractions t for which the binary64 value of 1 - t lies so far below
\* the real one that a product n * (1 - t) whose real value is a whole number
\* comes out just under it: 1 - 0.8 is 0.19999999999999996, and 5 times that
\* is 0.9999999999999998.  (For 0.2 and 0.5 every whole product is exact.)
RoundsBelow == {<<4, 5>>}

\* floor(n * (1 - t)) over the reals.
RealFloor(n, t) == (n * (t[2] - t[1])) \div t[2]

\* Math.floor(X.length * (1 - testSize)) in binary64 arithmetic; None is NaN
\* (testSize is undefined).
TrainSizeOf(n, ts) ==
    IF ts = None THEN None
    ELSE LET t == ts[1] IN
         IF t \in RoundsBelow /\ n > 0 /\ (n * (t[2] - t[1])) % t[2] = 0
         THEN Some(RealFloor(n, t) - 1)
         ELSE Some(RealFloor(n, t))

\* An index argument of Array.prototype.slice: NaN counts as 0, and the
\* index is capped by the length.
SliceIndex(o, len) ==
    IF o = None THEN 0 ELSE IF o[1] > len THEN len ELSE o[1]

\* arr.slice(start, end) and arr.slice(start)
slice(arr, start, end) ==
    SubSeq(arr, SliceIndex(start, Len(arr)) + 1, SliceIndex(end, Len(arr)))

\* X_train, y_train, X_test, y_test
Split(X, y, trainSize) ==
    [X_train |-> slice(X, Some(0), trainSize),
     y_train |-> slice(y, Some(0), trainSize),
     X_test |-> slice(X, trainSize, Some(Len(X))),
     y_test |-> slice(y, trainSize, Some(Len(y)))]

\* The arrays before the preparation has run.
NoArrays ==
    [X_train |-> <<>>, y_train |-> <<>>, X_test |-> <<>>, y_test |-> <<>>]

\* The cells of the model: every string of up to MaxCellLen characters, null,
\* a missing field, and numbers.
AllCells ==
    {Str(s) : s \in SeqsOf(Chars, 0, MaxCellLen)}
        \cup {Null, Undefined, Num(0), Num(2)}

\* The cells of the larger datasets: a decimal, the empty string, a word.
SampleCells == {Str(<<"1", "2">>), Str(<<>>), Str(<<"a">>)}
LabelCells == {Str(<<"0">>), Str(<<"1">>)}

\* The datasets: up to MaxRows rows over the sample cells, and one-row
\* datasets over every cell.
InitPrep ==
    /\ prepPc = "call"
    /\ prepOut = NoArrays
    /\ \/ /\ dsRows \in SeqsOf({[x |-> c, y |-> l] : c \in SampleCells,
                                                    l \in LabelCells},
                               0, MaxRows)
          /\ dsTarget \in {None, Some("x"), Some("y")}
          /\ testSize \in {None} \cup {Some(t) : t \in TestSizes}
       \/ /\ dsRows \in {<<[x |-> c, y |-> Str(<<"1">>)]>> : c \in AllCells}
          /\ dsTarget = None
          /\ testSize = Some(<<1, 2>>)

\* Lines "Convert to arrays" and "Split train/test" of the handler.
PrepareData ==
    /\ prepPc = "call"
    /\ prepOut' = Split(XOf(dsRows), YOf(dsRows, dsTarget),
                        TrainSizeOf(Len(dsRows), testSize))
    /\ prepPc' = "done"
    /\ UNCHANGED <<dsRows, dsTarget, testSize>>
    /\ UNCHANGED <<selVars, trainVars, expVars, moreVars>>

\* The preparation variables while no preparation is modelled.
PrepOff ==
    /\ prepPc = "off"
    /\ dsRows = <<>>
    /\ dsTarget = None
    /\ testSize = None
    /\ prepOut = NoArrays

\* ================================================================
\* Experiment controller (createExperiment, getExperimentById, trainModel,
\* tuneHyperparameters, deleteExperiment)
\* ================================================================
\* Most Experiment documents ever stored.
MaxExps == 1
MaxBigRows == 14
MaxSmallRows == 120
MaxUsers == 2

\* The handler calls that may be in progress together.
ExpCalls == {"c1", "c2"}

Users == {"u1", "u2"}

ExpOps == {"create", "get", "train", "tune", "delete"}

\* The Dataset collection as the experiment controller reads it: owner,
\* whether `data` is there, whether targetColumn is set.
Datasets ==
    [d \in {"d1", "d2", "d3", "d4"} |->
        [owner |-> IF d = "d2" THEN "u2" ELSE "u1",
         hasData |-> d # "d4",
         hasTarget |-> d # "d3"]]

\* Failures of axios.post: error.message, error.response?.status and
\* error.response?.data?.error (no response; a response with an error text;
\* a response without one).
ExpFailures ==
    {[message |-> "Network Error", status |-> None, remoteError |-> None],
     [message |-> "Request failed with status code 503", status |-> Some(503),
      remoteError |-> Some("model crashed")],
     [message |-> "Request failed with status code 422", status |-> Some(422),
      remoteError |-> None]}

\* data.training_metrics || data.metrics || {} of a successful reply.
ReplyMetrics == "metrics"

\* The stored document with _id id, as a set (empty when there is none).
DocsById(store, id) == {e \in store : e.id = id}

\* Experiment.findOne({_id: id, user: user})
FindOwned(store, id, user) == {e \in store : e.id = id /\ e.user = user}

\* The document a handler holds: its values and its modified paths.
Loaded(e) == [doc |-> e, mod |-> {}, code |-> 0, error |-> None]

\* experiment.path = value: the path is marked modified when the value
\* differs from the one held.
SetPath(m, path, value) ==
    IF m.doc[path] = value THEN m
    ELSE [m EXCEPT !.doc = [m.doc EXCEPT ![path] = value],
                   !.mod = m.mod \cup {path}]

\* experiment.save(): the modified paths are written to the stored document
\* of the same _id.
Save(store, m) ==
    {IF e.id = m.doc.id
     THEN [p \in DOMAIN e |-> IF p \in m.mod THEN m.doc[p] ELSE e[p]]
     ELSE e : e \in store}

\* The document createExperiment stores.
NewExperiment(id, call) ==
    [id |-> id, user |-> call.user, dataset |-> call.dataset,
     status |-> "created", errorMessage |-> None, trainingMetrics |-> None,
     tuningApplied |-> FALSE]

\* A response: the status code, `success`, the error text of a proxied
\* failure and, when the body carries an experiment, the user owning it.
Response(code, expUser) ==
    [code |-> code, success |-> code < 400, error |-> None,
     expUser |-> expUser]

\* handleProxyError(res, error): error.response?.status || 500, and
\* error.response?.data?.error || error.message.
handleProxyError(f) ==
    [code |-> IF f.status # None THEN f.status[1] ELSE 500,
     success |-> FALSE,
     error |-> IF f.remoteError # None THEN f.remoteError ELSE Some(f.message),
     expUser |-> None]

\* No call in the slot.
NoCall == [op |-> "none", user |-> "u1", id |-> 0, dataset |-> "d1",
           algorithm |-> None]

\* The calls a client may make.
ExpCallSet ==
    {[op |-> "create", user |-> "u1", id |-> 0, dataset |-> d,
      algorithm |-> Some("a")] : d \in DOMAIN Datasets}
    \cup
    {[op |-> "create", user |-> "u1", id |-> 0, dataset |-> "d1",
      algorithm |-> None],
     [op |-> "create", user |-> "u2", id |-> 0, dataset |-> "d2",
      algorithm |-> Some("a")]}
    \cup
    {[op |-> o, user |-> u, id |-> i, dataset |-> "d1", algorithm |-> None]
        : o \in ExpOps \ {"create"}, u \in Users, i \in 1..MaxExps}

\* The slot answers and is free again.
Respond(c, code, expUser) ==
    /\ xresp' = [xresp EXCEPT ![c] = Some(Response(code, expUser))]
    /\ xpc' = [xpc EXCEPT ![c] = "idle"]

\* The createExperiment calls in progress.
CreatesInProgress == {c \in ExpCalls : xpc[c] \in {"createLookup", "createDoc"}}

\* A request arrives (createExperiment only while the collection of the
\* model has room): the handler starts and awaits its first lookup
\* (Dataset.findOne for createExperiment, Experiment.findOne for the others).
ExpBeginFrom(c, calls) ==
    /\ xpc[c] = "idle"
    /\ \E call \in calls :
         /\ call.op = "create" => xnext + Cardinality(CreatesInProgress) <= MaxExps
         /\ xcall' = [xcall EXCEPT ![c] = call]
         /\ xpc' = [xpc EXCEPT ![c] =
                      IF call.op = "create" THEN "createLookup" ELSE "findOne"]
    /\ xdoc' = [xdoc EXCEPT ![c] = None]
    /\ xresp' = [xresp EXCEPT ![c] = None]
    /\ xposts' = [xposts EXCEPT ![c] = 0]
    /\ UNCHANGED <<xnext, experiments>>
    /\ UNCHANGED notExpVars

\* A request of the client arrives.
ExpBegin(c) == ExpBeginFrom(c, ExpCallSet)

\* The trainModel, tuneHyperparameters and deleteExperiment calls of the
\* owner of a stored experiment.
TrainCallSet ==
    {call \in ExpCallSet : call.op \in {"train", "tune", "delete"} /\ call.user = "u1"}

\* A trainModel, tuneHyperparameters or deleteExperiment request of the
\* owner arrives.
TrainBegin(c) == ExpBeginFrom(c, TrainCallSet)

\* The controller with the experiments of earlier createExperiment calls
\* stored (each of user u1 on dataset d1, status 'created').
InitStored ==
    /\ xpc = [c \in ExpCalls |-> "idle"]
    /\ xcall = [c \in ExpCalls |-> NoCall]
    /\ xdoc = [c \in ExpCalls |-> None]
    /\ xresp = [c \in ExpCalls |-> None]
    /\ xposts = [c \in ExpCalls |-> 0]
    /\ xnext = MaxExps + 1
    /\ experiments =
          {NewExperiment(i, [user |-> "u1", dataset |-> "d1"]) : i \in 1..MaxExps}

\* createExperiment: Dataset.findOne({_id, user}) answers; 404 when there is
\* no such dataset of the caller, otherwise Experiment.create is awaited.
CreateLookupReturns(c) ==
    /\ xpc[c] = "createLookup"
    /\ IF /\ xcall[c].dataset \in DOMAIN Datasets
          /\ Datasets[xcall[c].dataset].owner = xcall[c].user
       THEN /\ xpc' = [xpc EXCEPT ![c] = "createDoc"]
            /\ UNCHANGED xresp
       ELSE Respond(c, 404, None)
    /\ UNCHANGED <<xcall, xdoc, xposts, xnext, experiments>>
    /\ UNCHANGED notExpVars

\* createExperiment: Experiment.create answers; a document without the
\* required algorithm is rejected (500), a valid one is stored with status
\* 'created' (201).
ExperimentCreateReturns(c) ==
    /\ xpc[c] = "createDoc"
    /\ IF xcall[c].algorithm # None
       THEN /\ experiments' = experiments \cup {NewExperiment(xnext, xcall[c])}
            /\ xnext' = xnext + 1
            /\ Respond(c, 201, Some(xcall[c].user))
       ELSE /\ Respond(c, 500, None)
            /\ UNCHANGED <<experiments, xnext>>
    /\ UNCHANGED <<xcall, xdoc, xposts>>
    /\ UNCHANGED notExpVars

\* Variant of ExpFindOneReturns: the lookup is by _id alone.
ExpFindOneReturnsAnyUser(c) ==
    /\ xpc[c] = "findOne"
    /\ LET found == DocsById(experiments, xcall[c].id) IN
       IF found = {}
       THEN /\ Respond(c, 404, None)
            /\ UNCHANGED xdoc
       ELSE LET e == CHOOSE e \in found : TRUE IN
            IF xcall[c].op = "get"
            THEN /\ Respond(c, 200, Some(e.user))
                 /\ UNCHANGED xdoc
            ELSE /\ xdoc' = [xdoc EXCEPT ![c] = Some(Loaded(e))]
                 /\ xpc' = [xpc EXCEPT ![c] =
                              IF xcall[c].op = "delete" THEN "deleteOne"
                              ELSE "findDataset"]
                 /\ UNCHANGED xresp
    /\ UNCHANGED <<xcall, xposts, xnext, experiments>>
    /\ UNCHANGED notExpVars

\* getExperimentById, trainModel, tuneHyperparameters, deleteExperiment:
\* Experiment.findOne({_id, user}) answers.  404 when there is no such
\* experiment of the caller; otherwise getExperimentById answers 200 with
\* it, deleteExperiment awaits deleteOne, and the other two await
\* Dataset.findById.
ExpFindOneReturns(c) ==
    /\ xpc[c] = "findOne"
    /\ LET found == FindOwned(experiments, xcall[c].id, xcall[c].user) IN
       IF found = {}
       THEN /\ Respond(c, 404, None)
            /\ UNCHANGED xdoc
       ELSE LET e == CHOOSE e \in found : TRUE IN
            IF xcall[c].op = "get"
            THEN /\ Respond(c, 200, Some(e.user))
                 /\ UNCHANGED xdoc
            ELSE /\ xdoc' = [xdoc EXCEPT ![c] = Some(Loaded(e))]
                 /\ xpc' = [xpc EXCEPT ![c] =
                              IF xcall[c].op = "delete" THEN "deleteOne"
                              ELSE "findDataset"]
                 /\ UNCHANGED xresp
    /\ UNCHANGED <<xcall, xposts, xnext, experiments>>
    /\ UNCHANGED notExpVars

\* deleteExperiment: experiment.deleteOne() answers.
DeleteOneReturns(c) ==
    /\ xpc[c] = "deleteOne"
    /\ experiments' = experiments \ DocsById(experiments, xdoc[c][1].doc.id)
    /\ Respond(c, 200, None)
    /\ UNCHANGED <<xcall, xdoc, xposts, xnext>>
    /\ UNCHANGED notExpVars

\* Variant of FindDatasetReturns: trainModel marks the experiment 'failed'
\* in the store when the dataset has no target column.
FindDatasetReturnsMarksFailed(c) ==
    /\ xpc[c] = "findDataset"
    /\ LET d == xdoc[c][1].doc.dataset IN
       IF d \notin DOMAIN Datasets \/ ~ Datasets[d].hasData
       THEN /\ Respond(c, 400, None)
            /\ UNCHANGED <<xdoc, xposts, experiments>>
       ELSE IF ~ Datasets[d].hasTarget
       THEN /\ Respond(c, 500, None)
            /\ experiments' = Save(experiments,
                                   SetPath(xdoc[c][1], "status", "failed"))
            /\ UNCHANGED <<xdoc, xposts>>
       ELSE IF xcall[c].op = "train"
       THEN /\ xdoc' = [xdoc EXCEPT ![c] =
                          Some(SetPath(@[1], "status", "training"))]
            /\ xpc' = [xpc EXCEPT ![c] = "saveTraining"]
            /\ UNCHANGED <<xresp, xposts, experiments>>
       ELSE /\ xposts' = [xposts EXCEPT ![c] = @ + 1]
            /\ xpc' = [xpc EXCEPT ![c] = "post"]
            /\ UNCHANGED <<xresp, xdoc, experiments>>
    /\ UNCHANGED <<xcall, xnext>>
    /\ UNCHANGED notExpVars

\* trainModel, tuneHyperparameters: Dataset.findById answers.  400 when the
\* dataset is missing or has no data; prepareDatasetPayload throws without a
\* target column (500).  Then trainModel sets status 'training' and awaits
\* save; tuneHyperparameters issues POST /ml/tune.
FindDatasetReturns(c) ==
    /\ xpc[c] = "findDataset"
    /\ LET d == xdoc[c][1].doc.dataset IN
       IF d \notin DOMAIN Datasets \/ ~ Datasets[d].hasData
       THEN /\ Respond(c, 400, None)
            /\ UNCHANGED <<xdoc, xposts>>
       ELSE IF ~ Datasets[d].hasTarget
       THEN /\ Respond(c, 500, None)
            /\ UNCHANGED <<xdoc, xposts>>
       ELSE IF xcall[c].op = "train"
       THEN /\ xdoc' = [xdoc EXCEPT ![c] =
                          Some(SetPath(@[1], "status", "training"))]
            /\ xpc' = [xpc EXCEPT ![c] = "saveTraining"]
            /\ UNCHANGED <<xresp, xposts>>
       ELSE /\ xposts' = [xposts EXCEPT ![c] = @ + 1]
            /\ xpc' = [xpc EXCEPT ![c] = "post"]
            /\ UNCHANGED <<xresp, xdoc>>
    /\ UNCHANGED <<xcall, xnext, experiments>>
    /\ UNCHANGED notExpVars

\* trainModel: the save of status 'training' answers, and POST /ml/train is
\* issued.  When the document has been deleted meanwhile the save writes
\* nothing and either rejects (outer catch, 500) or resolves, depending on
\* the Mongoose version.
SaveTrainingReturns(c) ==
    /\ xpc[c] = "saveTraining"
    /\ \E rejects \in BOOLEAN :
         IF DocsById(experiments, xdoc[c][1].doc.id) = {} /\ rejects
         THEN /\ Respond(c, 500, None)
              /\ UNCHANGED <<xdoc, xposts, experiments>>
         ELSE /\ experiments' = Save(experiments, xdoc[c][1])
              /\ xdoc' = [xdoc EXCEPT ![c] = Some([@[1] EXCEPT !.mod = {}])]
              /\ xposts' = [xposts EXCEPT ![c] = @ + 1]
              /\ xpc' = [xpc EXCEPT ![c] = "post"]
              /\ UNCHANGED xresp
    /\ UNCHANGED <<xcall, xnext>>
    /\ UNCHANGED notExpVars

\* Variant of PostReturns: after a failed remote call the experiment is put
\* back to 'created'.
PostReturnsResets(c) ==
    /\ xpc[c] = "post"
    /\ \/ LET m1 == IF xcall[c].op = "train"
                    THEN SetPath(xdoc[c][1], "trainingMetrics", Some(ReplyMetrics))
                    ELSE SetPath(xdoc[c][1], "tuningApplied", TRUE)
              m2 == SetPath(m1, "status", "completed") IN
          xdoc' = [xdoc EXCEPT ![c] = Some([m2 EXCEPT !.code = 200])]
       \/ \E f \in ExpFailures :
            LET m1 == SetPath(xdoc[c][1], "status", "created")
                m2 == SetPath(m1, "errorMessage", Some(f.message)) IN
            xdoc' = [xdoc EXCEPT ![c] =
                       Some([m2 EXCEPT !.code = handleProxyError(f).code,
                                       !.error = handleProxyError(f).error])]
    /\ xpc' = [xpc EXCEPT ![c] = "saveResult"]
    /\ UNCHANGED <<xcall, xresp, xposts, xnext, experiments>>
    /\ UNCHANGED notExpVars

\* Variant of PostReturns: a failed remote call is answered 500 with the
\* local error message, whatever the remote response was.
PostReturnsAnswers500(c) ==
    /\ xpc[c] = "post"
    /\ \/ LET m1 == IF xcall[c].op = "train"
                    THEN SetPath(xdoc[c][1], "trainingMetrics", Some(ReplyMetrics))
                    ELSE SetPath(xdoc[c][1], "tuningApplied", TRUE)
              m2 == SetPath(m1, "status", "completed") IN
          xdoc' = [xdoc EXCEPT ![c] = Some([m2 EXCEPT !.code = 200])]
       \/ \E f \in ExpFailures :
            LET m1 == SetPath(xdoc[c][1], "status", "failed")
                m2 == SetPath(m1, "errorMessage", Some(f.message)) IN
            xdoc' = [xdoc EXCEPT ![c] =
                       Some([m2 EXCEPT !.code = 500,
                                       !.error = Some(f.message)])]
    /\ xpc' = [xpc EXCEPT ![c] = "saveResult"]
    /\ UNCHANGED <<xcall, xresp, xposts, xnext, experiments>>
    /\ UNCHANGED notExpVars

\* Variant of PostReturns: after a failed remote call only errorMessage is
\* set, the status stays as it was.
PostReturnsKeepsStatus(c) ==
    /\ xpc[c] = "post"
    /\ \/ LET m1 == IF xcall[c].op = "train"
                    THEN SetPath(xdoc[c][1], "trainingMetrics", Some(ReplyMetrics))
                    ELSE SetPath(xdoc[c][1], "tuningApplied", TRUE)
              m2 == SetPath(m1, "status", "completed") IN
          xdoc' = [xdoc EXCEPT ![c] = Some([m2 EXCEPT !.code = 200])]
       \/ \E f \in ExpFailures :
            LET m2 == SetPath(xdoc[c][1], "errorMessage", Some(f.message)) IN
            xdoc' = [xdoc EXCEPT ![c] =
                       Some([m2 EXCEPT !.code = handleProxyError(f).code,
                                       !.error = handleProxyError(f).error])]
    /\ xpc' = [xpc EXCEPT ![c] = "saveResult"]
    /\ UNCHANGED <<xcall, xresp, xposts, xnext, experiments>>
    /\ UNCHANGED notExpVars

\* trainModel, tuneHyperparameters: the awaited axios.post resolves (the
\* metrics or the tuning results are set, status 'completed') or rejects
\* (status 'failed', errorMessage); the save is awaited.
PostReturns(c) ==
    /\ xpc[c] = "post"
    /\ \/ LET m1 == IF xcall[c].op = "train"
                    THEN SetPath(xdoc[c][1], "trainingMetrics", Some(ReplyMetrics))
                    ELSE SetPath(xdoc[c][1], "tuningApplied", TRUE)
              m2 == SetPath(m1, "status", "completed") IN
          xdoc' = [xdoc EXCEPT ![c] = Some([m2 EXCEPT !.code = 200])]
       \/ \E f \in ExpFailures :
            LET m1 == SetPath(xdoc[c][1], "status", "failed")
                m2 == SetPath(m1, "errorMessage", Some(f.message)) IN
            xdoc' = [xdoc EXCEPT ![c] =
                       Some([m2 EXCEPT !.code = handleProxyError(f).code,
                                       !.error = handleProxyError(f).error])]
    /\ xpc' = [xpc EXCEPT ![c] = "saveResult"]
    /\ UNCHANGED <<xcall, xresp, xposts, xnext, experiments>>
    /\ UNCHANGED notExpVars

\* trainModel, tuneHyperparameters: the last save answers and the response
\* is sent: the experiment (200) after a successful remote call, the proxy
\* error after a failed one.  A save that rejects (the document has been
\* deleted) ends in the outer catch (500).
SaveResultReturns(c) ==
    /\ xpc[c] = "saveResult"
    /\ \E rejects \in BOOLEAN :
         IF DocsById(experiments, xdoc[c][1].doc.id) = {} /\ rejects
         THEN /\ Respond(c, 500, None)
              /\ UNCHANGED <<xdoc, experiments>>
         ELSE /\ experiments' = Save(experiments, xdoc[c][1])
              /\ xdoc' = [xdoc EXCEPT ![c] = Some([@[1] EXCEPT !.mod = {}])]
              /\ xresp' = [xresp EXCEPT ![c] =
                     Some(IF xdoc[c][1].code = 200
                          THEN Response(200, Some(xdoc[c][1].doc.user))
                          ELSE [code |-> xdoc[c][1].code, success |-> FALSE,
                                error |-> xdoc[c][1].error,
                                expUser |-> None])]
              /\ xpc' = [xpc EXCEPT ![c] = "idle"]
    /\ UNCHANGED <<xcall, xposts, xnext>>
    /\ UNCHANGED notExpVars

\* The controller variables before any call.
InitExp ==
    /\ xpc = [c \in ExpCalls |-> "idle"]
    /\ xcall = [c \in ExpCalls |-> NoCall]
    /\ xdoc = [c \in ExpCalls |-> None]
    /\ xresp = [c \in ExpCalls |-> None]
    /\ xposts = [c \in ExpCalls |-> 0]
    /\ xnext = 1

\* ================================================================
\* Dataset controller: preprocessDataset
\* ================================================================
\* Call slots: up to two preprocessDataset calls in progress together.
DsCalls == {"p1", "p2"}

\* The _id and the owner of the stored dataset.
DsId == 1
DsOwner == "u1"

\* A dataset as uploadDataset stores it (status 'ready', the schema's
\* default preprocessingApplied = false, no preprocessing steps).
UploadedDataset ==
    [id |-> DsId, user |-> DsOwner, status |-> "ready",
     preprocessingApplied |-> FALSE, preprocessingSteps |-> None]

\* The outcomes of the remote /ml/preprocess call: it fails, or it answers
\* with preprocessing_steps the schema can cast or cannot.
PreprocessReplies == {"fails", "steps", "uncastable"}

\* The dataset controller before any call.
InitDs ==
    /\ datasets = {UploadedDataset}
    /\ dpc = [c \in DsCalls |-> "idle"]
    /\ dcall = [c \in DsCalls |-> DsOwner]
    /\ ddoc = [c \in DsCalls |-> None]
    /\ dresp = [c \in DsCalls |-> 0]
    /\ dposts = [c \in DsCalls |-> 0]

\* The dataset controller is not called.
DsOff ==
    /\ datasets = {}
    /\ dpc = [c \in DsCalls |-> "off"]
    /\ dcall = [c \in DsCalls |-> DsOwner]
    /\ ddoc = [c \in DsCalls |-> None]
    /\ dresp = [c \in DsCalls |-> 0]
    /\ dposts = [c \in DsCalls |-> 0]

notDsVars == <<selVars, trainVars, prepVars, expVars, upVars, authVars,
               cmpVars>>

\* The slot answers and is free again.
DsRespond(c, code) ==
    /\ dresp' = [dresp EXCEPT ![c] = code]
    /\ dpc' = [dpc EXCEPT ![c] = "idle"]

\* A preprocessDataset request of some user arrives; Dataset.findOne is
\* awaited.
PreprocessBegin(c) ==
    /\ dpc[c] = "idle"
    /\ \E u \in Users : dcall' = [dcall EXCEPT ![c] = u]
    /\ dpc' = [dpc EXCEPT ![c] = "findOne"]
    /\ ddoc' = [ddoc EXCEPT ![c] = None]
    /\ dresp' = [dresp EXCEPT ![c] = 0]
    /\ dposts' = [dposts EXCEPT ![c] = 0]
    /\ UNCHANGED datasets
    /\ UNCHANGED notDsVars

\* Dataset.findOne({_id, user}) answers: 404 when the caller has no such
\* dataset; otherwise status is set to 'preprocessing' and save is awaited.
DsFindOneReturns(c) ==
    /\ dpc[c] = "findOne"
    /\ LET found == FindOwned(datasets, DsId, dcall[c]) IN
       IF found = {}
       THEN /\ DsRespond(c, 404)
            /\ UNCHANGED ddoc
       ELSE /\ ddoc' = [ddoc EXCEPT ![c] =
                   Some(SetPath(Loaded(CHOOSE e \in found : TRUE),
                                "status", "preprocessing"))]
            /\ dpc' = [dpc EXCEPT ![c] = "saveFirst"]
            /\ UNCHANGED dresp
    /\ UNCHANGED <<datasets, dcall, dposts>>
    /\ UNCHANGED notDsVars

\* The first save answers; the rows are then read from the stored file
\* (when there is one) or taken from dataset.data.
DsSaveFirstReturns(c) ==
    /\ dpc[c] = "saveFirst"
    /\ datasets' = Save(datasets, ddoc[c][1])
    /\ ddoc' = [ddoc EXCEPT ![c] = Some([@[1] EXCEPT !.mod = {}])]
    /\ dpc' = [dpc EXCEPT ![c] = "readRows"]
    /\ UNCHANGED <<dcall, dresp, dposts>>
    /\ UNCHANGED notDsVars

\* The rows are there and POST /ml/preprocess is issued, or the stream of
\* the stored file fails (catch: 500).
DsReadRowsReturns(c) ==
    /\ dpc[c] = "readRows"
    /\ \/ /\ dposts' = [dposts EXCEPT ![c] = @ + 1]
          /\ dpc' = [dpc EXCEPT ![c] = "post"]
          /\ UNCHANGED dresp
       \/ /\ DsRespond(c, 500)
          /\ UNCHANGED dposts
    /\ UNCHANGED <<datasets, dcall, ddoc>>
    /\ UNCHANGED notDsVars

\* Variant of DsPostReturns: a failed remote call writes status 'error'.
DsPostReturnsWritesError(c) ==
    /\ dpc[c] = "post"
    /\ \E reply \in PreprocessReplies :
         IF reply = "fails"
         THEN /\ DsRespond(c, 500)
              /\ datasets' = Save(datasets, SetPath(ddoc[c][1], "status", "error"))
              /\ UNCHANGED ddoc
         ELSE LET m1 == SetPath(ddoc[c][1], "preprocessingApplied", TRUE)
                  m2 == SetPath(m1, "preprocessingSteps", Some(reply))
                  m3 == SetPath(m2, "status", "ready") IN
              /\ ddoc' = [ddoc EXCEPT ![c] = Some(m3)]
              /\ dpc' = [dpc EXCEPT ![c] = "saveLast"]
              /\ UNCHANGED <<dresp, datasets>>
    /\ UNCHANGED <<dcall, dposts>>
    /\ UNCHANGED notDsVars

\* The awaited axios.post rejects (catch: 500, nothing is written) or
\* resolves: preprocessingApplied, preprocessingSteps and status 'ready'
\* are set and save is awaited.
DsPostReturns(c) ==
    /\ dpc[c] = "post"
    /\ \E reply \in PreprocessReplies :
         IF reply = "fails"
         THEN /\ DsRespond(c, 500)
              /\ UNCHANGED ddoc
         ELSE LET m1 == SetPath(ddoc[c][1], "preprocessingApplied", TRUE)
                  m2 == SetPath(m1, "preprocessingSteps", Some(reply))
                  m3 == SetPath(m2, "status", "ready") IN
              /\ ddoc' = [ddoc EXCEPT ![c] = Some(m3)]
              /\ dpc' = [dpc EXCEPT ![c] = "saveLast"]
              /\ UNCHANGED dresp
    /\ UNCHANGED <<datasets, dcall, dposts>>
    /\ UNCHANGED notDsVars

\* The last save answers: the modified paths are written and 200 is
\* answered, or validation rejects the steps (catch: 500) and nothing is
\* written.
DsSaveLastReturns(c) ==
    /\ dpc[c] = "saveLast"
    /\ IF ddoc[c][1].doc.preprocessingSteps = Some("uncastable")
       THEN /\ DsRespond(c, 500)
            /\ UNCHANGED <<datasets, ddoc>>
       ELSE /\ datasets' = Save(datasets, ddoc[c][1])
            /\ ddoc' = [ddoc EXCEPT ![c] = Some([@[1] EXCEPT !.mod = {}])]
            /\ DsRespond(c, 200)
    /\ UNCHANGED <<dcall, dposts>>
    /\ UNCHANGED notDsVars

\* ================================================================
\* Dataset controller: uploadDataset (size limit of the persisted rows)
\* ================================================================
\* 12 * 1024 * 1024
MAX_BYTES == 12 * 1024 * 1024

\* The least number of rows kept by a truncation: Math.max(100, ...).
MinRowsKept == 100

\* MongoDB's limit on the size of a document, which the comment at the
\* truncation refers to; the size of the stored document is taken to be
\* the JSON size of its rows.
DocumentLimit == 16 * 1024 * 1024

\* JSON sizes in bytes of a large and of a small parsed row.
BigRowSizes == {1024 * 1024, 512 * 1024}
SmallRowSizes == {64, 1024, 120000}

\* The sum of the elements of q (by halves).
RECURSIVE SumSeq(_)
SumSeq(q) ==
    IF Len(q) = 0 THEN 0
    ELSE IF Len(q) = 1 THEN q[1]
    ELSE LET h == Len(q) \div 2 IN
         SumSeq(SubSeq(q, 1, h)) + SumSeq(SubSeq(q, h + 1, Len(q)))

\* Buffer.byteLength(JSON.stringify(rows), 'utf8'): the brackets, the rows
\* and the commas between them.
JsonSize(rows) ==
    IF rows = <<>> THEN 2 ELSE 2 + SumSeq(rows) + (Len(rows) - 1)

Max(a, b) == IF a >= b THEN a ELSE b

\* Math.max(1, Math.floor(jsonSize / results.length))
approxRowSize(rows) == Max(1, JsonSize(rows) \div Len(rows))

\* Math.max(100, Math.floor(MAX_BYTES / approxRowSize))
maxRows(rows) == Max(MinRowsKept, MAX_BYTES \div approxRowSize(rows))

\* dataToPersist: results, or results.slice(0, maxRows) when the JSON size
\* of results exceeds MAX_BYTES.
dataToPersist(rows) ==
    IF JsonSize(rows) > MAX_BYTES
    THEN SubSeq(rows, 1, IF maxRows(rows) < Len(rows) THEN maxRows(rows)
                         ELSE Len(rows))
    ELSE rows

\* The parsed files of the model: some large rows followed by some small
\* ones.
ParsedFiles ==
    {[i \in 1..(b + k) |-> IF i <= b THEN big ELSE small]
        : b \in 0..MaxBigRows, k \in {0, 1, MinRowsKept, MaxSmallRows},
          big \in BigRowSizes, small \in SmallRowSizes}

\* The CSV file of an upload has been parsed ('end' of the stream).
InitUp ==
    /\ upPc = "parsed"
    /\ upResults \in ParsedFiles
    /\ upValid \in BOOLEAN
    /\ upStored = {}
    /\ upStatus = 0

\* uploadDataset is not called.
UpOff ==
    /\ upPc = "off"
    /\ upResults = <<>>
    /\ upValid = TRUE
    /\ upStored = {}
    /\ upStatus = 0

\* The 'end' handler of uploadDataset: 400 for a file without rows;
\* otherwise the document is built and saved (201), unless validation or
\* the document size limit rejects the save (500).
UploadEnd ==
    /\ upPc = "parsed"
    /\ upPc' = "done"
    /\ IF Len(upResults) = 0
       THEN upStatus' = 400 /\ UNCHANGED upStored
       ELSE IF ~ upValid \/ JsonSize(dataToPersist(upResults)) > DocumentLimit
       THEN upStatus' = 500 /\ UNCHANGED upStored
       ELSE /\ upStatus' = 201
            /\ upStored' = {[data |-> dataToPersist(upResults),
                             numberOfRows |-> Len(upResults)]}
    /\ UNCHANGED <<upResults, upValid>>
    /\ UNCHANGED <<selVars, trainVars, prepVars, expVars, dsVars, authVars,
                   cmpVars>>

\* ================================================================
\* User controller: registerUser, loginUser and the in-memory fallback
\* ================================================================
\* Call slots: up to two requests in progress together.
AuthCalls == {"a1", "a2"}

\* req.body.email and req.body.password ("": not provided).
Emails == {"", "ann@x", "bob@x"}
Passwords == {"pw1", "pw2"}

\* bcrypt.hash(password, 10) and bcrypt.compare(password, hash).
BcryptHash(password) == <<"bcrypt", password>>
BcryptCompare(password, hash) == hash = BcryptHash(password)

\* The requests a client may send (name is always provided).
AuthCallSet ==
    [op : {"register", "login"}, email : Emails, password : Passwords]

\* useInMemory || mongoose.connection.readyState !== 1
InMemoryBranch == useInMemory \/ ~ connected

\* inMemoryUsers.find(u => u.email === email): the first match, if any.
FindInMemory(email) ==
    LET hits == {i \in 1..Len(inMemoryUsers) : inMemoryUsers[i].email = email}
    IN IF hits = {} THEN None
       ELSE Some(inMemoryUsers[CHOOSE i \in hits : \A j \in hits : i <= j])

\* User.findOne({ email })
FindInDb(email) == {u \in dbUsers : u.email = email}

\* The registerUser calls that may still insert a user.
RegistrationsInProgress ==
    {c \in AuthCalls : apc[c] \in {"hash", "dbFind", "dbCreate"}}

\* The process has started: the timer is pending and no request has come.
InitAuth ==
    /\ inMemoryUsers = <<>>
    /\ useInMemory = FALSE
    /\ timerFired = "no"
    /\ connected \in BOOLEAN
    /\ dbUsers = {}
    /\ apc = [c \in AuthCalls |-> "idle"]
    /\ acall = [c \in AuthCalls |->
                  [op |-> "none", email |-> "", password |-> "pw1",
                   after201 |-> FALSE]]
    /\ afound = [c \in AuthCalls |-> None]
    /\ aresp = [c \in AuthCalls |-> 0]
    /\ registered = {}

\* The user controller is not loaded.
AuthOff ==
    /\ inMemoryUsers = <<>>
    /\ useInMemory = FALSE
    /\ timerFired = "off"
    /\ connected = FALSE
    /\ dbUsers = {}
    /\ apc = [c \in AuthCalls |-> "off"]
    /\ acall = [c \in AuthCalls |->
                  [op |-> "none", email |-> "", password |-> "pw1",
                   after201 |-> FALSE]]
    /\ afound = [c \in AuthCalls |-> None]
    /\ aresp = [c \in AuthCalls |-> 0]
    /\ registered = {}

notAuthVars == <<selVars, trainVars, prepVars, expVars, dsVars, upVars,
                 cmpVars>>

\* The slot answers and is free again.
AuthRespond(c, code) ==
    /\ aresp' = [aresp EXCEPT ![c] = code]
    /\ apc' = [apc EXCEPT ![c] = "idle"]

\* The callback of setTimeout(..., 2000) runs.
TimerFires ==
    /\ timerFired = "no"
    /\ timerFired' = "yes"
    /\ useInMemory' = ~ connected
    /\ UNCHANGED <<inMemoryUsers, connected, dbUsers, apc, acall, afound,
                   aresp, registered>>
    /\ UNCHANGED notAuthVars

\* The connection to the database is established or lost.
ConnectionChanges ==
    /\ timerFired # "off"
    /\ connected' = ~ connected
    /\ UNCHANGED <<inMemoryUsers, useInMemory, timerFired, dbUsers, apc,
                   acall, afound, aresp, registered>>
    /\ UNCHANGED notAuthVars

\* A registerUser or loginUser request arrives and runs to its first await
\* (registerUser only while the stores of the model have room): 400 on a
\* missing field; on the in-memory branch the list is searched (register:
\* 400 when the email is there, else bcrypt.hash is awaited; login: 401
\* when it is not, else bcrypt.compare is awaited); otherwise
\* User.findOne is awaited.
AuthBegin(c) ==
    /\ apc[c] = "idle"
    /\ \E call \in AuthCallSet :
         /\ call.op = "register" =>
               /\ Len(inMemoryUsers) + Cardinality(RegistrationsInProgress) < MaxUsers
               /\ Cardinality(dbUsers) + Cardinality(RegistrationsInProgress) < MaxUsers
         /\ acall' = [acall EXCEPT ![c] =
               [op |-> call.op, email |-> call.email, password |-> call.password,
                after201 |-> <<call.email, call.password>> \in registered]]
         /\ IF call.email = ""
            THEN /\ AuthRespond(c, 400)
                 /\ afound' = [afound EXCEPT ![c] = None]
            ELSE IF InMemoryBranch
            THEN LET user == FindInMemory(call.email) IN
                 IF call.op = "register"
                 THEN /\ afound' = [afound EXCEPT ![c] = None]
                      /\ IF user # None
                         THEN AuthRespond(c, 400)
                         ELSE /\ apc' = [apc EXCEPT ![c] = "hash"]
                              /\ aresp' = [aresp EXCEPT ![c] = 0]
                 ELSE /\ afound' = [afound EXCEPT ![c] = user]
                      /\ IF user = None
                         THEN AuthRespond(c, 401)
                         ELSE /\ apc' = [apc EXCEPT ![c] = "compare"]
                              /\ aresp' = [aresp EXCEPT ![c] = 0]
            ELSE /\ afound' = [afound EXCEPT ![c] = None]
                 /\ apc' = [apc EXCEPT ![c] = "dbFind"]
                 /\ aresp' = [aresp EXCEPT ![c] = 0]
    /\ UNCHANGED <<inMemoryUsers, useInMemory, timerFired, connected, dbUsers,
                   registered>>
    /\ UNCHANGED notAuthVars

\* registerUser, in-memory branch: the awaited bcrypt.hash answers, the new
\* user is pushed and 201 is answered.
HashReturns(c) ==
    /\ apc[c] = "hash"
    /\ inMemoryUsers' = Append(inMemoryUsers,
           [email |-> acall[c].email,
            password |-> BcryptHash(acall[c].password)])
    /\ registered' = registered \cup {<<acall[c].email, acall[c].password>>}
    /\ AuthRespond(c, 201)
    /\ UNCHANGED <<useInMemory, timerFired, connected, dbUsers, acall, afound>>
    /\ UNCHANGED notAuthVars

\* loginUser, in-memory branch: the awaited bcrypt.compare answers.
CompareReturns(c) ==
    /\ apc[c] = "compare"
    /\ AuthRespond(c, IF BcryptCompare(acall[c].password, afound[c][1].password)
                      THEN 200 ELSE 401)
    /\ UNCHANGED <<inMemoryUsers, useInMemory, timerFired, connected, dbUsers,
                   acall, afound, registered>>
    /\ UNCHANGED notAuthVars

\* The awaited User.findOne({ email }) answers; it rejects without a
\* connection (catch: 500).  registerUser: 400 when the email is there,
\* else User.create is awaited.  loginUser: 401 when it is not, else
\* matchPassword is awaited.
DbFindReturns(c) ==
    /\ apc[c] = "dbFind"
    /\ LET found == FindInDb(acall[c].email) IN
       IF ~ connected
       THEN AuthRespond(c, 500) /\ UNCHANGED afound
       ELSE IF acall[c].op = "register"
       THEN /\ UNCHANGED afound
            /\ IF found # {}
               THEN AuthRespond(c, 400)
               ELSE /\ apc' = [apc EXCEPT ![c] = "dbCreate"]
                    /\ UNCHANGED aresp
       ELSE IF found = {}
       THEN AuthRespond(c, 401) /\ UNCHANGED afound
       ELSE /\ afound' = [afound EXCEPT ![c] = Some(CHOOSE u \in found : TRUE)]
            /\ apc' = [apc EXCEPT ![c] = "dbMatch"]
            /\ UNCHANGED aresp
    /\ UNCHANGED <<inMemoryUsers, useInMemory, timerFired, connected, dbUsers,
                   acall, registered>>
    /\ UNCHANGED notAuthVars

\* registerUser: the awaited User.create answers: the user is stored with a
\* hashed password (201); it rejects without a connection or for an email
\* that has been stored meanwhile (catch: 500).
DbCreateReturns(c) ==
    /\ apc[c] = "dbCreate"
    /\ IF ~ connected \/ FindInDb(acall[c].email) # {}
       THEN /\ AuthRespond(c, 500)
            /\ UNCHANGED <<dbUsers, registered>>
       ELSE /\ dbUsers' = dbUsers \cup
                   {[email |-> acall[c].email,
                     password |-> BcryptHash(acall[c].password)]}
            /\ registered' = registered \cup {<<acall[c].email, acall[c].password>>}
            /\ AuthRespond(c, 201)
    /\ UNCHANGED <<inMemoryUsers, useInMemory, timerFired, connected, acall,
                   afound>>
    /\ UNCHANGED notAuthVars

\* loginUser: the awaited user.matchPassword(password) answers.
DbMatchReturns(c) ==
    /\ apc[c] = "dbMatch"
    /\ AuthRespond(c, IF BcryptCompare(acall[c].password, afound[c][1].password)
                      THEN 200 ELSE 401)
    /\ UNCHANGED <<inMemoryUsers, useInMemory, timerFired, connected, dbUsers,
                   acall, afound, registered>>
    /\ UNCHANGED notAuthVars

\* ================================================================
\* compareModels (POST /api/experiments/compare-models)
\* ================================================================
\* The requests: req.user._id, req.body.datasetId and req.body.problemType.
CmpRequests == [user : Users, datasetId : DatasetIds, problemType : ProblemTypes]

\* The document compareModels hands to Experiment.create, by the required
\* paths of experimentSchema (no algorithm is given).
CompareExperimentDoc ==
    [name |-> Some("Model Comparison"),
     user |-> Some(cmpReq.user),
     dataset |-> Some(cmpReq.datasetId),
     problemType |-> Some(cmpReq.problemType),
     algorithm |-> None,
     status |-> "completed",
     bestModel |-> cmpBest]

\* A compareModels request has arrived and awaits Dataset.findOne.
InitCmp ==
    /\ cmpPc = "findOne"
    /\ cmpReq \in CmpRequests
    /\ cmpModels = None
    /\ cmpHeap = <<>>
    /\ cmpBest = NullRef
    /\ cmpStatus = 0
    /\ cmpError = ""
    /\ cmpStored = {}

\* compareModels is not called.
CmpOff ==
    /\ cmpPc = "off"
    /\ cmpReq = [user |-> "u1", datasetId |-> "d1",
                 problemType |-> "classification"]
    /\ cmpModels = None
    /\ cmpHeap = <<>>
    /\ cmpBest = NullRef
    /\ cmpStatus = 0
    /\ cmpError = ""
    /\ cmpStored = {}

notCmpVars == <<selVars, trainVars, prepVars, expVars, dsVars, upVars, authVars>>

\* The handler answers.
CmpRespond(code, error) ==
    /\ cmpPc' = "done"
    /\ cmpStatus' = code
    /\ cmpError' = error

\* Dataset.findOne({_id, user}) answers: 404 when the caller has no such
\* dataset, otherwise POST /ml/compare-models is issued.
CmpFindOneReturns ==
    /\ cmpPc = "findOne"
    /\ IF /\ cmpReq.datasetId \in DOMAIN DatasetOwner
          /\ DatasetOwner[cmpReq.datasetId] = cmpReq.user
       THEN /\ cmpPc' = "post"
            /\ UNCHANGED <<cmpStatus, cmpError>>
       ELSE CmpRespond(404, "")
    /\ UNCHANGED <<cmpReq, cmpModels, cmpHeap, cmpBest, cmpStored>>
    /\ UNCHANGED notCmpVars

\* The awaited axios.post rejects (catch: 500).
CmpPostFails ==
    /\ cmpPc = "post"
    /\ CmpRespond(500, "remote")
    /\ UNCHANGED <<cmpReq, cmpModels, cmpHeap, cmpBest, cmpStored>>
    /\ UNCHANGED notCmpVars

\* The awaited axios.post resolves: findBestModel is called and the
\* argument of Experiment.create is built, its properties in the order
\* written: `description` reads models.length (a TypeError when models is
\* absent), `metrics` reads bestModel.primaryMetric (a TypeError when
\* bestModel is null); then Experiment.create is awaited.
CmpPostReturns ==
    /\ cmpPc = "post"
    /\ \E h \in ModelHeaps(cmpReq.problemType), absent \in BOOLEAN :
         LET marg == IF absent THEN None ELSE Some([i \in 1..Len(h) |-> i])
             r == findBestModel(h, marg, cmpReq.problemType) IN
         /\ absent => Len(h) = 0
         /\ cmpModels' = marg
         /\ cmpHeap' = r.heap
         /\ cmpBest' = r.ret
         /\ IF r.threw THEN CmpRespond(500, "findBestModel")
            ELSE IF marg = None THEN CmpRespond(500, "models.length")
            ELSE IF r.ret = NullRef THEN CmpRespond(500, "bestModel.primaryMetric")
            ELSE /\ cmpPc' = "create"
                 /\ UNCHANGED <<cmpStatus, cmpError>>
    /\ UNCHANGED <<cmpReq, cmpStored>>
    /\ UNCHANGED notCmpVars

\* The awaited Experiment.create answers: the document is stored (200) or
\* rejected by validation (catch: 500).
CmpCreateReturns ==
    /\ cmpPc = "create"
    /\ IF ValidExperiment(CompareExperimentDoc)
       THEN /\ cmpStored' = cmpStored \cup {CompareExperimentDoc}
            /\ CmpRespond(200, "")
       ELSE /\ CmpRespond(500, "validation")
            /\ UNCHANGED cmpStored
    /\ UNCHANGED <<cmpReq, cmpModels, cmpHeap, cmpBest>>
    /\ UNCHANGED notCmpVars

\* The variables added for the later controllers, not in use.
MoreOff == DsOff /\ UpOff /\ AuthOff /\ CmpOff

\* ---------------------------------------------------------------- specs
\* One trainMultipleModels request.
Init == InitTrainVars({"r1"}) /\ SelOff /\ PrepOff /\ InitExp /\ MoreOff

Next ==
    \E r \in Reqs :
        \/ Start(r)
        \/ FindOneReturns(r)
        \/ ReadFileFails(r)
        \/ TrainSucceeds(r)
        \/ TrainFails(r)
        \/ CreateReturns(r)

Spec == Init /\ [][Next]_vars

\* Two trainMultipleModels requests, their steps interleaved.
TwoInit == InitTwo /\ SelOff /\ PrepOff /\ InitExp /\ MoreOff

SpecTwo == TwoInit /\ [][Next]_vars

\* One findBestModel call on a bounded reply.
SelInit == InitSel /\ InitTrainVars({}) /\ PrepOff /\ InitExp /\ MoreOff

SelNext ==
    CallFindBestModel /\ UNCHANGED <<trainVars, prepVars, expVars, moreVars>>

SpecSel == SelInit /\ [][SelNext]_vars

\* The data preparation of one request on a bounded dataset.
PrepInit == InitPrep /\ InitTrainVars({}) /\ SelOff /\ InitExp /\ MoreOff

PrepNext == PrepareData

SpecPrep == PrepInit /\ [][PrepNext]_vars

\* Calls of the experiment controller, up to two in progress together.
ExpInit == InitExp /\ InitTrainVars({}) /\ SelOff /\ PrepOff /\ MoreOff

ExpNext ==
    \E c \in ExpCalls :
        \/ ExpBegin(c)
        \/ CreateLookupReturns(c)
        \/ ExperimentCreateReturns(c)
        \/ ExpFindOneReturns(c)
        \/ DeleteOneReturns(c)
        \/ FindDatasetReturns(c)
        \/ SaveTrainingReturns(c)
        \/ PostReturns(c)
        \/ SaveResultReturns(c)

SpecExp == ExpInit /\ [][ExpNext]_vars

\* preprocessDataset calls on one stored dataset, up to two in progress.
DsInit ==
    /\ InitDs /\ InitTrainVars({}) /\ SelOff /\ PrepOff /\ InitExp
    /\ UpOff /\ AuthOff /\ CmpOff

DsNext ==
    \E c \in DsCalls :
        \/ PreprocessBegin(c)
        \/ DsFindOneReturns(c)
        \/ DsSaveFirstReturns(c)
        \/ DsReadRowsReturns(c)
        \/ DsPostReturns(c)
        \/ DsSaveLastReturns(c)

SpecDs == DsInit /\ [][DsNext]_vars

\* One uploadDataset request on a parsed file.
UpInit ==
    /\ InitUp /\ InitTrainVars({}) /\ SelOff /\ PrepOff /\ InitExp
    /\ DsOff /\ AuthOff /\ CmpOff

UpNext == UploadEnd

SpecUp == UpInit /\ [][UpNext]_vars

\* registerUser and loginUser requests, up to two in progress, with the
\* start-up timer and changes of the database connection.
AuthInit ==
    /\ InitAuth /\ InitTrainVars({}) /\ SelOff /\ PrepOff /\ InitExp
    /\ DsOff /\ UpOff /\ CmpOff

AuthNext ==
    \/ TimerFires
    \/ ConnectionChanges
    \/ \E c \in AuthCalls :
          \/ AuthBegin(c)
          \/ HashReturns(c)
          \/ CompareReturns(c)
          \/ DbFindReturns(c)
          \/ DbCreateReturns(c)
          \/ DbMatchReturns(c)

SpecAuth == AuthInit /\ [][AuthNext]_vars

\* One compareModels request.
CmpInit ==
    /\ InitCmp /\ InitTrainVars({}) /\ SelOff /\ PrepOff /\ InitExp
    /\ DsOff /\ UpOff /\ AuthOff

CmpNext ==
    \/ CmpFindOneReturns
    \/ CmpPostFails
    \/ CmpPostReturns
    \/ CmpCreateReturns

SpecCmp == CmpInit /\ [][CmpNext]_vars

\* trainModel, tuneHyperparameters and deleteExperiment calls of the owner
\* on stored experiments, up to two in progress together.
StoredInit ==
    /\ InitStored /\ SelOff /\ PrepOff /\ MoreOff
    /\ pc = [r \in Reqs |-> "off"]
    /\ body = [r \in Reqs |-> IdleBody]
    /\ idx = [r \in Reqs |-> 0]
    /\ results = [r \in Reqs |-> EmptyObj]
    /\ bestModel = [r \in Reqs |-> None]
    /\ bestScore = [r \in Reqs |-> InitialBestScore]
    /\ posted = [r \in Reqs |-> <<>>]
    /\ postedHyper = [r \in Reqs |-> <<>>]
    /\ replies = [r \in Reqs |-> <<>>]
    /\ status = [r \in Reqs |-> 0]
    /\ dbOps = [r \in Reqs |-> <<>>]

\* The steps of a call once its request has arrived: every awaited
\* operation (a store operation, the remote call) answers.
ExpStep(c) ==
    \/ ExpFindOneReturns(c)
    \/ DeleteOneReturns(c)
    \/ FindDatasetReturns(c)
    \/ SaveTrainingReturns(c)
    \/ PostReturns(c)
    \/ SaveResultReturns(c)

TrainNext == \E c \in ExpCalls : TrainBegin(c) \/ ExpStep(c)

\* The same when every awaited operation eventually answers and the event
\* loop eventually runs the continuation of each call; requests arrive
\* whenever the client sends them (no fairness).
SpecExpFair ==
    /\ StoredInit
    /\ [][TrainNext]_vars
    /\ \A c \in ExpCalls : WF_vars(ExpStep(c))

\* ================================================================
\* Properties of trainMultipleModels (checked under Spec)
\* ================================================================
\* The requested algorithm list of request r.
AlgorithmsOf(r) == body[r].algorithms[1]

\* The loop of request r is over: Experiment.create is awaited or has answered.
LoopEnded(r) ==
    \/ pc[r] = "create"
    \/ pc[r] = "done" /\ "Experiment.create" \in SeqRange(dbOps[r])

\* The calls of request r answered so far, and those that succeeded.
Answered(r) == 1..Len(replies[r])
Succeeded(r) == {i \in Answered(r) : replies[r][i].ok}

NoRepeats(s) == \A i, j \in 1..Len(s) : s[i] = s[j] => i = j

\* bestModel names an algorithm a call of which succeeded, no call of which
\* failed, and whose results entry has no error field.
BestAmongSucceeded(r) ==
    bestModel[r] # None =>
        LET a == bestModel[r][1].algorithm IN
        /\ \E i \in Succeeded(r) : AlgorithmsOf(r)[i] = a
        /\ \A i \in Answered(r) \ Succeeded(r) : AlgorithmsOf(r)[i] # a
        /\ a \in DOMAIN results[r]
        /\ results[r][a].error = None

PresentOr(a, b) == IF a # None THEN a ELSE b
StatedScore(modelResult, pt) ==
    CASE pt = "classification" ->
           PresentOr(PresentOr(Chain(modelResult.test_metrics, "accuracy"),
                               Chain(modelResult.training_metrics, "accuracy")),
                     Some(0))[1]
      [] pt = "regression" ->
           PresentOr(PresentOr(Chain(modelResult.test_metrics, "r2_score"),
                               Chain(modelResult.training_metrics, "r2_score")),
                     Some(0))[1]
      [] pt = "clustering" ->
           PresentOr(Chain(modelResult.metrics, "silhouette_score"), Some(0))[1]

\* C10 as stated: when the loop is over, for classification, regression and
\* clustering, bestModel is the first successful call, in requested order,
\* whose score by the stated rule is maximal among the successful calls, and
\* bestModel.score is that score.
C10_FirstMaximalStatedScore ==
    \A r \in Reqs :
        (LoopEnded(r) /\ body[r].problemType \in RankedTypes /\ Succeeded(r) # {})
        => LET sc(i) == StatedScore(replies[r][i].data[1], body[r].problemType)
               top == CHOOSE i \in Succeeded(r) :
                        /\ \A j \in Succeeded(r) : sc(j) <= sc(i)
                        /\ \A j \in Succeeded(r) : j < i => sc(j) < sc(i)
           IN /\ bestModel[r] # None
              /\ bestModel[r][1].algorithm = AlgorithmsOf(r)[top]
              /\ bestModel[r][1].score = sc(top)

\* C12: a request whose algorithm list is missing or empty, or whose
\* datasetId is missing, is answered 400 by the first step of the handler:
\* it issues no store operation (no dataset lookup) and no remote call.
C12_InvalidBodyRejectedFirst ==
    \A r \in Reqs :
        (pc[r] # "off" /\ ~ ValidBody(r)) =>
            /\ pc[r] \in {"start", "done"}
            /\ pc[r] = "done" => status[r] = 400
            /\ dbOps[r] = <<>>
            /\ posted[r] = <<>>

\* C12 witness: a request with a dataset id and an empty algorithm list has
\* been answered 400.
C12_Witness ==
    /\ pc["r1"] = "done"
    /\ status["r1"] = 400
    /\ body["r1"].datasetId = Some("d1")
    /\ body["r1"].algorithms = Some(<<>>)

\* A request naming a dataset that is absent or not the caller's is answered
\* 404, has issued no remote call and no Experiment.create, and no
\* Experiment is stored.
NotFoundAnswered404(r) ==
    (pc[r] = "done" /\ ValidBody(r) /\ ~ DatasetFound(r)) =>
        /\ status[r] = 404
        /\ posted[r] = <<>>
        /\ dbOps[r] = <<"Dataset.findOne">>
        /\ experiments = {}

ExperimentsOf(r) == {e \in experiments : e.owner = r}

\* C14 as stated: when every remote call of a valid request has failed, the
\* request is answered 200 with bestModel null and an error in every results
\* entry.
C14_AllFailedStill200 ==
    \A r \in Reqs :
        (pc[r] = "done" /\ LoopEnded(r) /\ Succeeded(r) = {}) =>
            /\ status[r] = 200
            /\ bestModel[r] = None
            /\ \A a \in DOMAIN results[r] : results[r][a].error # None

\* C15 as stated: a valid request (dataset found, non-empty list) that has
\* been answered has stored exactly one Experiment, of status 'completed',
\* and did so after the last remote call; a request answered 200 has stored
\* exactly one, a request answered 400 or 404 none.
C15_ExactlyOneExperiment ==
    \A r \in Reqs :
        /\ (pc[r] = "done" /\ LoopEnded(r)) =>
              /\ Cardinality(ExperimentsOf(r)) = 1
              /\ \A e \in ExperimentsOf(r) : e.status = "completed"
        /\ ExperimentsOf(r) # {} => Len(replies[r]) = Len(AlgorithmsOf(r))
        /\ status[r] = 200 => Cardinality(ExperimentsOf(r)) = 1
        /\ status[r] \in {400, 404} => ExperimentsOf(r) = {}

\* C17: the remote calls of a request are issued in the order of the
\* requested list, and a call is issued only when every earlier call has
\* been answered: at most one call is outstanding.
C17_OneCallAtATime ==
    \A r \in Reqs :
        /\ Len(posted[r]) - Len(replies[r]) \in {0, 1}
        /\ posted[r] # <<>> =>
              /\ Len(posted[r]) <= Len(AlgorithmsOf(r))
              /\ posted[r] = SubSeq(AlgorithmsOf(r), 1, Len(posted[r]))

\* C17 witness: of the list constructor, lda, xgboost the first call has
\* been answered and the call for lda is outstanding; none has been issued
\* for xgboost.
C17_Witness ==
    /\ pc["r1"] = "train"
    /\ body["r1"].algorithms = Some(<<"constructor", "lda", "xgboost">>)
    /\ posted["r1"] = <<"constructor", "lda">>
    /\ Len(replies["r1"]) = 1

\* results, bestModel and bestScore as the loop of one request computes
\* them from its own algorithm list, problem type and replies: acc after the
\* replies before number i, continued to the last reply.
RECURSIVE Replay(_, _, _, _, _)
Replay(algorithms, pt, reps, i, acc) ==
    IF i > Len(reps) THEN acc
    ELSE LET rep == reps[i]
             score == Score(rep.data[1], pt)
         IN Replay(algorithms, pt, reps, i + 1,
                IF ~ rep.ok
                THEN [acc EXCEPT !.results =
                          Put(@, algorithms[i], ErrorEntry(rep.message[1]))]
                ELSE IF score > acc.bestScore
                THEN [results |-> Put(acc.results, algorithms[i], rep.data[1]),
                      bestModel |-> Some(BestModelOf(algorithms[i], score,
                                                     rep.data[1])),
                      bestScore |-> score]
                ELSE [acc EXCEPT !.results =
                          Put(@, algorithms[i], rep.data[1])])

\* C20 (checked under SpecTwo): in every state of two interleaved requests,
\* results and bestModel of each request are what that request's own
\* algorithm list, problem type and replies determine, and an Experiment it
\* has stored is the document built from its own request.
C20_RequestsIndependent ==
    \A r \in Reqs :
        /\ pc[r] \in {"train", "create", "done"} /\ posted[r] # <<>> =>
              LET own == Replay(AlgorithmsOf(r), body[r].problemType,
                                replies[r], 1,
                                [results |-> EmptyObj, bestModel |-> None,
                                 bestScore |-> InitialBestScore])
              IN /\ results[r] = own.results
                 /\ bestModel[r] = own.bestModel
        /\ ExperimentsOf(r) \subseteq {MultiExperimentDoc(r)}

\* C20 witness: both requests are inside their loops, each has had one
\* reply, and their best models differ in score and metrics.
C20_Witness ==
    /\ pc["r1"] = "train"
    /\ pc["r2"] = "train"
    /\ Len(replies["r1"]) = 1
    /\ Len(replies["r2"]) = 1
    /\ bestModel["r1"] # None
    /\ bestModel["r2"] # None
    /\ bestModel["r1"][1].score = 1
    /\ bestModel["r2"][1].score = -1

\* C21 as stated: every remote training call carries
\* getDefaultHyperparameters(algorithm) of its algorithm, and for an
\* algorithm that is not in the table that value is the empty map.
C21_DefaultsOrEmptyMap ==
    \A r \in Reqs :
        /\ Len(postedHyper[r]) = Len(posted[r])
        /\ \A i \in 1..Len(posted[r]) :
              /\ postedHyper[r][i] = getDefaultHyperparameters(posted[r][i])
              /\ posted[r][i] \notin DOMAIN defaults =>
                    postedHyper[r][i] = PlainObject(EmptyObj)

\* ================================================================
\* Properties of findBestModel (checked under SpecSel)
\* ================================================================
\* findBestModel has returned from a call on a non-empty array.
ReturnedNonEmpty ==
    fbmPc = "returned" /\ models # None /\ Len(models[1]) > 0

\* The primary metric of spec 4.1: the first field, else the test_metrics
\* field, else 0 (a field that is missing or 0 counts as not there, as in the
\* value written to primaryMetric).
ExtractPrimaryMetric(m, pt) ==
    CASE pt = "classification" ->
           OrElse(OrElse(m.f1_score, Chain(m.test_metrics, "f1_score")), Some(0))[1]
      [] pt = "regression" ->
           OrElse(OrElse(m.r2_score, Chain(m.test_metrics, "r2_score")), Some(0))[1]
      [] pt = "clustering" ->
           OrElse(m.silhouette_score, Some(0))[1]

\* C4 as stated: for classification, regression and clustering the element
\* returned for a non-empty sequence has a primary metric (rule of 4.1) that
\* is >= the primary metric of every element.
C4_ReturnsMaximalPrimaryMetric ==
    (ReturnedNonEmpty /\ fbmType \in RankedTypes) =>
        \A i \in 1..Len(models[1]) :
            ExtractPrimaryMetric(heap[fbmRet], fbmType)
                >= ExtractPrimaryMetric(heap[models[1][i]], fbmType)

C6_ReturnsInputElement ==
    ReturnedNonEmpty =>
        /\ fbmRet \in SeqRange(models[1])
        /\ Len(heap) = Len(models[1])

\* C6 witness: a call on three models that returned the third.
C6_Witness ==
    /\ ReturnedNonEmpty
    /\ Len(models[1]) = 3
    /\ fbmRet = models[1][3]

\* C7: called with a missing or empty array, findBestModel returns null for
\* every problem type and does not throw.
C7_EmptyReturnsNull ==
    (fbmPc \in {"returned", "threw"} /\ (models = None \/ Len(models[1]) = 0)) =>
        /\ fbmPc = "returned"
        /\ fbmRet = NullRef

\* C7 witness: a call with no array, under a ranked problem type, has
\* returned null.
C7_Witness ==
    /\ fbmPc = "returned"
    /\ models = None
    /\ fbmType = "regression"
    /\ fbmRet = NullRef

\* The winner carries none of the metric fields.
NoMetricFields(m) ==
    /\ m.f1_score = None
    /\ m.r2_score = None
    /\ m.silhouette_score = None
    /\ m.test_metrics = None

\* C8 as stated: for every problem type of the enumeration, a winner without
\* any metric field is returned with primaryMetric = 0, and the primaryMetric
\* of the element returned equals the metric it was ranked by in the scan.
C8_PrimaryMetricIsRankMetric ==
    ReturnedNonEmpty =>
        /\ NoMetricFields(heap[fbmRet]) => heap[fbmRet].primaryMetric = Some(0)
        /\ fbmType \in RankedTypes =>
              heap[fbmRet].primaryMetric = Some(ScanMetric(heap[fbmRet], fbmType))

C11_SplitAtFloor ==
    (prepPc = "done" /\ testSize # None) =>
        LET n == Len(dsRows)
            k == RealFloor(n, testSize[1])
            X == XOf(dsRows)
            y == YOf(dsRows, dsTarget)
        IN /\ prepOut.X_train = SubSeq(X, 1, k)
           /\ prepOut.y_train = SubSeq(y, 1, k)
           /\ prepOut.X_test = SubSeq(X, k + 1, n)
           /\ prepOut.y_test = SubSeq(y, k + 1, n)
           /\ prepOut.X_train \o prepOut.X_test = X
           /\ prepOut.y_train \o prepOut.y_test = y

\* The value sent for a cell is the number the cell parses to (by parseFloat
\* or by Number), or the cell itself.
ParsedOrUnchanged(cell, sent) ==
    \/ sent = cell
    \/ /\ sent.t = "number"
       /\ Some(sent.n) \in {parseFloat(cell), ToNumber(cell)}

\* C18 as stated: every cell of the arrays sent to the remote trainer is the
\* number obtained by parsing the dataset cell or, when the cell does not
\* parse, the cell unchanged; no cell (the empty string, a string of white
\* space and null included) becomes any other value.
C18_CellParsedOrUnchanged ==
    prepPc = "done" =>
        LET X == prepOut.X_train \o prepOut.X_test
            y == prepOut.y_train \o prepOut.y_test
        IN /\ Len(X) = Len(dsRows)
           /\ Len(y) = Len(dsRows)
           /\ \A i \in 1..Len(dsRows) :
                 /\ \A j \in 1..Len(Columns) :
                       ParsedOrUnchanged(dsRows[i][Columns[j]], X[i][j])
                 /\ ParsedOrUnchanged(dsRows[i][TargetCol(dsTarget)], y[i])

\* ================================================================
\* Properties of the experiment controller (checked under SpecExp)
\* ================================================================
\* C16 as stated: the status of an Experiment changes only from created to
\* training, from training to completed and from training to failed (so
\* completed and failed are final, and completed is reached through
\* training only).
C16_StatusLifecycle ==
    [][\A e \in experiments : \A f \in experiments' :
          (e.id = f.id /\ e.status # f.status) =>
              <<e.status, f.status>> \in {<<"created", "training">>,
                                          <<"training", "completed">>,
                                          <<"training", "failed">>}]_vars

\* C16 amended: an Experiment is stored with status created; its status is
\* set to training only by the save trainModel makes before its remote call,
\* and to completed or failed only by the save trainModel or
\* tuneHyperparameters makes after its remote call, whatever the status was
\* (a completed or failed experiment can be trained or tuned again, and
\* tuneHyperparameters reaches completed from created); the status never
\* returns to created.
C16_StatusSetByTrainAndTune ==
    [][/\ \A f \in experiments' :
             (\A e \in experiments : e.id # f.id) => f.status = "created"
       /\ \A e \in experiments : \A f \in experiments' :
             (e.id = f.id /\ e.status # f.status) =>
                 /\ f.status # "created"
                 /\ f.status = "training" =>
                       \E c \in ExpCalls :
                          /\ xpc[c] = "saveTraining"
                          /\ xcall[c].op = "train"
                          /\ xdoc[c][1].doc.id = e.id
                          /\ xposts'[c] = 1
                 /\ f.status \in {"completed", "failed"} =>
                       \E c \in ExpCalls :
                          /\ xpc[c] = "saveResult"
                          /\ xdoc[c][1].doc.id = e.id
                          /\ xresp'[c] # None]_vars

\* C16 witness: an experiment that tuneHyperparameters has completed and
\* that was never trained.
C16_Witness ==
    \E e \in experiments :
        /\ e.status = "completed"
        /\ e.tuningApplied
        /\ e.trainingMetrics = None
        /\ e.errorMessage = None

\* Slot c holds a call of getExperimentById, trainModel, tuneHyperparameters
\* or deleteExperiment whose experiment is absent or owned by another user.
ForeignOrAbsent(c) ==
    /\ xcall[c].op \in ExpOps \ {"create"}
    /\ FindOwned(experiments, xcall[c].id, xcall[c].user) = {}

Fresh(m, e) == \A p \in DOMAIN e : p \notin m.mod => e[p] = m.doc[p]

\* Slot c ends a trainModel or tuneHyperparameters call whose remote call
\* failed: the save after the catch block answers.
FailedCallEnds(c) ==
    /\ xpc[c] = "saveResult"
    /\ xdoc[c][1].code # 200
    /\ xpc'[c] = "idle"

\* The response to the failure f: the remote status when there is one, else
\* 500; success false; the remote error text, else the local message.
StatedProxyResponse(f) ==
    [code |-> IF f.status = None THEN 500 ELSE f.status[1],
     success |-> FALSE,
     error |-> IF f.remoteError = None THEN Some(f.message) ELSE f.remoteError,
     expUser |-> None]

\* C22 as stated: when the remote call of trainModel or tuneHyperparameters
\* has failed, the experiment is stored with status 'failed' and the error's
\* message, and the response carries the remote status (500 without one),
\* success false and the remote error text (else the local message).
C22_FailureSavedAndProxied ==
    [][\A c \in ExpCalls :
          FailedCallEnds(c) =>
              \E f \in ExpFailures :
                  /\ \E e \in experiments' :
                        /\ e.id = xdoc[c][1].doc.id
                        /\ e.status = "failed"
                        /\ e.errorMessage = Some(f.message)
                  /\ xresp'[c] = Some(StatedProxyResponse(f))]_vars

\* C22 amended: the handler sets status 'failed' and the error's message on
\* the document it holds and saves it; when the experiment is still stored
\* and no other request has written it since the handler read it, the stored
\* experiment then has status 'failed' and that message; when the save
\* succeeds the response carries the remote status (500 without one),
\* success false and the remote error text (else the local message), and
\* when the save rejects (the experiment was deleted) the response is 500.
C22_FailureSavedWhenUncontended ==
    [][\A c \in ExpCalls :
          FailedCallEnds(c) =>
              LET m == xdoc[c][1]
                  stored == DocsById(experiments, m.doc.id)
              IN \E f \in ExpFailures :
                    /\ m.doc.status = "failed"
                    /\ m.doc.errorMessage = Some(f.message)
                    /\ (stored # {} /\ \A e \in stored : Fresh(m, e)) =>
                          /\ DocsById(experiments', m.doc.id) = {m.doc}
                          /\ xresp'[c] = Some(StatedProxyResponse(f))
                    /\ stored # {} => xresp'[c] = Some(StatedProxyResponse(f))
                    /\ stored = {} =>
                          /\ experiments' = experiments
                          /\ xresp'[c] \in {Some(StatedProxyResponse(f)),
                                            Some(Response(500, None))}]_vars

\* C22 witness: a trainModel call was answered 503 with the remote error
\* text, and the experiment is stored as failed with the error's message.
C22_Witness ==
    /\ xpc["c1"] = "idle"
    /\ xcall["c1"].op = "train"
    /\ xresp["c1"] # None
    /\ xresp["c1"][1].code = 503
    /\ xresp["c1"][1].error = Some("model crashed")
    /\ \E e \in experiments :
          /\ e.id = xcall["c1"].id
          /\ e.status = "failed"
          /\ e.errorMessage = Some("Request failed with status code 503")

\* C24: a step by which a trainModel call leaves its lookups otherwise than
\* towards the save of status 'training' (experiment not found: 404; dataset
\* missing or without data: 400; dataset without a target column: 500)
\* leaves every stored experiment as it was, and the call has issued no
\* remote call.
C24_RejectedTrainChangesNothing ==
    [][\A c \in ExpCalls :
          (/\ xcall[c].op = "train"
           /\ xpc[c] \in {"findOne", "findDataset"}
           /\ xpc'[c] \notin {xpc[c], "saveTraining"})
          => /\ experiments' = experiments
             /\ xposts'[c] = 0
             /\ xpc'[c] = "idle" =>
                   /\ xresp'[c] # None
                   /\ xresp'[c][1].code \in {404, 400, 500}
                   /\ ~ xresp'[c][1].success]_vars

\* A trainModel call on an experiment whose dataset has no target column
\* has been answered 500, and the experiment is still 'created'.
C24_Witness ==
    /\ xpc["c1"] = "idle"
    /\ xcall["c1"].op = "train"
    /\ xresp["c1"] # None
    /\ xresp["c1"][1].code = 500
    /\ xposts["c1"] = 0
    /\ \E e \in experiments :
         /\ e.id = xcall["c1"].id
         /\ e.dataset = "d3"
         /\ e.status = "created"
         /\ e.errorMessage = None
         /\ e.trainingMetrics = None

\* An experiment with _id i is stored with status 'training'.
InTraining(i) == \E e \in experiments : e.id = i /\ e.status = "training"

\* C23: under SpecExpFair, every trainModel call that has saved status
\* 'training' and awaits the remote call eventually sets status
\* 'completed' or 'failed' and awaits its save, and an experiment stored
\* with status 'training' is eventually not stored with it, also with two
\* calls for the same experiment in progress.
C23_TrainingEnds ==
    /\ \A c \in ExpCalls :
         (xcall[c].op = "train" /\ xpc[c] = "post")
            ~> (/\ xpc[c] = "saveResult"
                /\ xdoc[c][1].doc.status \in {"completed", "failed"})
    /\ \A i \in 1..MaxExps : InTraining(i) ~> ~ InTraining(i)

\* Two trainModel calls for the same experiment are in progress, one
\* awaiting the remote call and the other its last save, and the experiment
\* is stored with status 'training'.
C23_Witness ==
    /\ xcall["c1"].op = "train"
    /\ xcall["c2"].op = "train"
    /\ xcall["c1"].id = xcall["c2"].id
    /\ xpc["c1"] = "post"
    /\ xpc["c2"] = "saveResult"
    /\ InTraining(xcall["c1"].id)

\* ================================================================
\* Properties of preprocessDataset (checked under SpecDs)
\* ================================================================
\* The step by which the call in slot c learns that the remote call failed.
RemoteFailureAnswered(c) == dpc[c] = "post" /\ dpc'[c] = "idle"

C26_PersistedWithinCap ==
    \A d \in upStored :
        /\ Len(d.data) <= Len(upResults)
        /\ d.data = SubSeq(upResults, 1, Len(d.data))
        /\ d.numberOfRows = Len(upResults)
        /\ JsonSize(upResults) > MAX_BYTES => JsonSize(d.data) <= MAX_BYTES
        /\ JsonSize(upResults) <= MAX_BYTES => d.data = upResults

\* ================================================================
\* Properties of the user controller (checked under SpecAuth)
\* ================================================================
\* C27: the in-memory user list never holds two users with the same email.
C27_NoDuplicateEmail ==
    \A i, j \in 1..Len(inMemoryUsers) :
        inMemoryUsers[i].email = inMemoryUsers[j].email => i = j

\* C28: a loginUser request with an email and a password for which
\* registerUser had answered 201 before the request arrived is answered
\* 200.
C28_RegisteredCanLogIn ==
    [][\A c \in AuthCalls :
          (/\ apc'[c] = "idle"
           /\ aresp'[c] # 0
           /\ acall'[c].op = "login"
           /\ acall'[c].after201
           /\ <<apc[c], acall[c], aresp[c]>> # <<apc'[c], acall'[c], aresp'[c]>>)
          => aresp'[c] = 200]_vars

\* ================================================================
\* Properties of compareModels (checked under SpecCmp)
\* ================================================================
\* The remote service has answered without a model: the list is empty or
\* absent.
NoModelReturned ==
    /\ cmpPc = "done"
    /\ cmpError # "remote"
    /\ cmpStatus # 404
    /\ (cmpModels = None \/ Len(cmpModels[1]) = 0)

\* C29 (as stated): 200 is answered only for a reply with at least one
\* model; for an empty or absent list findBestModel returns null, the
\* handler fails on reading bestModel.primaryMetric, answers 500 and no
\* Experiment is created.
C29_NoModelFailsOnPrimaryMetric ==
    /\ cmpStatus = 200 => cmpModels # None /\ Len(cmpModels[1]) >= 1
    /\ NoModelReturned =>
          /\ cmpBest = NullRef
          /\ cmpError = "bestModel.primaryMetric"
          /\ cmpStatus = 500
          /\ cmpStored = {}

\* C29 (amended): as above, but for an absent list the handler fails
\* earlier, on reading models.length.
C29_NoModelAnswers500 ==
    /\ cmpStatus = 200 => cmpModels # None /\ Len(cmpModels[1]) >= 1
    /\ NoModelReturned =>
          /\ cmpBest = NullRef
          /\ cmpError = IF cmpModels = None THEN "models.length"
                        ELSE "bestModel.primaryMetric"
          /\ cmpStatus = 500
          /\ cmpStored = {}

\* The remote service has answered with an empty list and the request has
\* been answered 500.
C29_Witness ==
    /\ cmpPc = "done"
    /\ cmpModels = Some(<<>>)
    /\ cmpStatus = 500
    /\ cmpError = "bestModel.primaryMetric"

====
